---- MODULE Spec2Model ----
(***************************************************************************)
(* Model of RetirementCalculator (src/src/RetirementCalculator.ts): the    *)
(* glidepath return resolver and the month-by-month glidepath simulator.   *)
(*                                                                         *)
(* Numbers.  The code computes in IEEE doubles.  Here                      *)
(*   - ages, annual returns and equity weights are exact rationals         *)
(*     [n |-> numerator, d |-> denominator > 0] in lowest terms, so two    *)
(*     values are equal exactly when their records are equal;              *)
(*   - money is an integer count of 1/MoneyScale dollars, and a product    *)
(*     of money with a rate is rounded down to that grid;                  *)
(*   - a monthly rate is an integer count of 1/RateScale, obtained from    *)
(*     the annual return by a fixed-point 12th root.                       *)
(***************************************************************************)
EXTENDS Integers, Sequences, FiniteSets, TLC

VARIABLES
    args,                \* the arguments of the call in progress
    pc,                  \* position of the call in progress: "start" | "loop" |
                         \* "done" | "error" in getCompoundInterestWithGlidepath,
                         \* "project" | "periods" | "projected" in
                         \* getCompoundInterestWithAdditionalContributions,
                         \* "aggregated" after aggregateDataByYear,
                         \* "size" | "sized" in
                         \* getContributionNeededForDesiredBalance, "builder"
                         \* for a ValidationResultBuilder, "idle" else
    month,               \* loop variable of the monthly simulation loop
    balance,             \* running balance (money)
    totalContributions,  \* running total of contributions (money)
    totalInterestEarned, \* running total of interest (money)
    monthlyTimeline,     \* sequence of MonthlyTimelineEntry
    period,              \* loop variable of the compounding-period loop
    compoundingPeriodDetails, \* sequence of CompoundingPeriodDetailsType
    yearlyData,          \* sequence of YearlyCompoundingDetails
    result,              \* the returned DynamicGlidepathResult, or NoResult
    error,               \* message of the Error thrown, or NoError
    probe,               \* resolver call: its input and output
    errors,              \* ValidationResultBuilder: its private errors array
    warnings,            \* ValidationResultBuilder: its private warnings array
    validationResult,    \* what the last build() returned, or NoResult
    calls                \* the calls made on the builder so far, oldest first

vars == <<args, pc, month, balance, totalContributions, totalInterestEarned,
          monthlyTimeline, period, compoundingPeriodDetails, yearlyData, result,
          error, probe, errors, warnings, validationResult, calls>>

\* The variables only the ValidationResultBuilder's methods write
builderVars == <<errors, warnings, validationResult, calls>>

\* The variables only getCompoundInterestWithAdditionalContributions and
\* aggregateDataByYear write
ledgerVars == <<period, compoundingPeriodDetails, yearlyData>>

simVars == <<args, pc, month, balance, totalContributions, totalInterestEarned,
             monthlyTimeline, result, error>>

-----------------------------------------------------------------------------
(* Exact rational arithmetic *)

Abs(x) == IF x < 0 THEN -x ELSE x

RECURSIVE GCD(_, _)
GCD(a, b) == IF b = 0 THEN a ELSE GCD(b, a % b)

\* The result of a division by zero (NaN): every comparison with it is false.
NaN == [n |-> 0, d |-> 0]

\* The rational n/d in lowest terms with a positive denominator.
R(n, d) ==
    IF d = 0 THEN NaN
    ELSE LET s == IF d < 0 THEN -1 ELSE 1
             g == GCD(Abs(n), Abs(d))
         IN  [n |-> (s * n) \div g, d |-> (s * d) \div g]

RInt(k) == [n |-> k, d |-> 1]
RZero == RInt(0)
ROne == RInt(1)

RAdd(a, b) == R(a.n * b.d + b.n * a.d, a.d * b.d)
RSub(a, b) == R(a.n * b.d - b.n * a.d, a.d * b.d)
RMul(a, b) == R(a.n * b.n, a.d * b.d)
RDiv(a, b) == R(a.n * b.d, a.d * b.n)
RLt(a, b) == a.n * b.d < b.n * a.d
RLe(a, b) == a.n * b.d <= b.n * a.d
\* Math.max and Math.min: NaN if either argument is
RMax(a, b) == IF a = NaN \/ b = NaN THEN NaN ELSE IF RLt(a, b) THEN b ELSE a
RMin(a, b) == IF a = NaN \/ b = NaN THEN NaN ELSE IF RLt(b, a) THEN b ELSE a
\* Math.ceil and Math.floor of a rational
RCeil(a) == -((-a.n) \div a.d)
RFloor(a) == a.n \div a.d

-----------------------------------------------------------------------------
(* Program constants *)

YEARLY == 1
MONTHLY == 12
WEEKLY == 52
MonthsPerYear == 12
CentsPerDollar == 100

(* Precision of the model's number grids *)
SubCent == 10
MoneyScale == CentsPerDollar * SubCent
RateScale == 10000
AgeGrid == 24          \* ages are drawn in steps of 1/AgeGrid year

NoResult == [none |-> "result"]
NoError == "no error"
Undefined == [undefined |-> TRUE]

-----------------------------------------------------------------------------
(* Frequency reconciliation primitives *)

getHowOftenToCompound(contributionFrequency, compoundingFrequency) ==
    IF contributionFrequency = YEARLY
    THEN compoundingFrequency
    ELSE IF compoundingFrequency >= contributionFrequency
         THEN RFloor(R(compoundingFrequency, contributionFrequency))
         ELSE RCeil(R(contributionFrequency, compoundingFrequency))

getCompoundMultiplier(contributionFrequency, compoundingFrequency) ==
    IF contributionFrequency = YEARLY
    THEN ROne
    ELSE RMin(ROne, R(compoundingFrequency, contributionFrequency))

\* money * rational, rounded down to the money grid
MulMoney(x, r) == (x * r.n) \div r.d

-----------------------------------------------------------------------------
(* Glidepath return resolver *)

\* A call that returns v, and a call that throws new Error(msg)
Return(v) == [throws |-> FALSE, value |-> v]
Throw(msg) == [throws |-> TRUE, error |-> msg]

\* Variant: the progress is not clamped to [0, 1]
calculateAgeProgressUnclamped(age, startAge, endAge) ==
    RDiv(RSub(age, startAge), RSub(endAge, startAge))

calculateAgeProgress(age, startAge, endAge) ==
    LET ageProgress == RDiv(RSub(age, startAge), RSub(endAge, startAge))
    IN  RMax(RZero, RMin(ROne, ageProgress))

calculateFixedReturnGlidepath(age, config, startAge, endAge) ==
    LET progress == calculateAgeProgress(age, startAge, endAge)
    IN  RAdd(config.startReturn,
             RMul(RSub(config.endReturn, config.startReturn), progress))

\* Variant: the decline is not floored at terminalReturn
calculateSteppedReturnGlidepathNoFloor(age, config) ==
    IF RLt(age, config.declineStartAge) THEN config.baseReturn
    ELSE IF RLe(config.terminalAge, age) THEN config.terminalReturn
    ELSE RSub(config.baseReturn,
              RMul(RSub(age, config.declineStartAge), config.declineRate))

\* Variant: the decline is capped, not floored, at terminalReturn
calculateSteppedReturnGlidepathMin(age, config) ==
    IF RLt(age, config.declineStartAge) THEN config.baseReturn
    ELSE IF RLe(config.terminalAge, age) THEN config.terminalReturn
    ELSE RMin(RSub(config.baseReturn,
                   RMul(RSub(age, config.declineStartAge), config.declineRate)),
              config.terminalReturn)

calculateSteppedReturnGlidepath(age, config) ==
    IF RLt(age, config.declineStartAge) THEN config.baseReturn
    ELSE IF RLe(config.terminalAge, age) THEN config.terminalReturn
    ELSE LET yearsFromStart == RSub(age, config.declineStartAge)
             calculatedReturn ==
                 RSub(config.baseReturn, RMul(yearsFromStart, config.declineRate))
         IN  RMax(calculatedReturn, config.terminalReturn)

calculateBlendedReturn(equityWeight, equityReturn, bondReturn) ==
    RAdd(RMul(equityWeight, equityReturn),
         RMul(RSub(ROne, equityWeight), bondReturn))

calculateAllocationBasedGlidepath(age, config, startAge, endAge) ==
    LET progress == calculateAgeProgress(age, startAge, endAge)
        currentEquityWeight ==
            RAdd(config.startEquityWeight,
                 RMul(RSub(config.endEquityWeight, config.startEquityWeight),
                      progress))
    IN  calculateBlendedReturn(currentEquityWeight, config.equityReturn,
                               config.bondReturn)

\* [...waypoints].sort((a, b) => a.age - b.age): a stable sort by age
RECURSIVE InsertByAge(_, _)
InsertByAge(sorted, w) ==
    IF sorted = <<>> THEN <<w>>
    ELSE IF RLt(w.age, Head(sorted).age) THEN <<w>> \o sorted
    ELSE <<Head(sorted)>> \o InsertByAge(Tail(sorted), w)

\* Variant: the waypoints are used in the order the caller lists them
SortByAgeAsListed(waypoints) == waypoints

RECURSIVE SortByAge(_)
SortByAge(waypoints) ==
    IF waypoints = <<>> THEN <<>>
    ELSE InsertByAge(SortByAge(SubSeq(waypoints, 1, Len(waypoints) - 1)),
                     waypoints[Len(waypoints)])

\* Variant: a pair brackets only the ages strictly between its two ages
RECURSIVE FindBracketStrict(_, _, _)
FindBracketStrict(age, waypoints, i) ==
    IF i > Len(waypoints) - 1 THEN 0
    ELSE IF RLt(waypoints[i].age, age) /\ RLt(age, waypoints[i + 1].age) THEN i
    ELSE FindBracketStrict(age, waypoints, i + 1)

\* The index of the first pair [i, i+1] (1-based) that brackets age, 0 if none
RECURSIVE FindBracket(_, _, _)
FindBracket(age, waypoints, i) ==
    IF i > Len(waypoints) - 1 THEN 0
    ELSE IF RLe(waypoints[i].age, age) /\ RLe(age, waypoints[i + 1].age) THEN i
    ELSE FindBracket(age, waypoints, i + 1)

\* Variant: an age before the first waypoint is not clamped to the first value
interpolateWaypointsNoLowerClamp(age, waypoints) ==
    IF Len(waypoints) = 0
    THEN Throw("Waypoints array must contain at least one waypoint")
    ELSE IF Len(waypoints) = 1 THEN Return(waypoints[1].value)
    ELSE IF RLe(waypoints[Len(waypoints)].age, age)
    THEN Return(waypoints[Len(waypoints)].value)
    ELSE LET i == FindBracket(age, waypoints, 1)
         IN  IF i = 0 THEN Return(waypoints[Len(waypoints)].value)
             ELSE Return(RAdd(waypoints[i].value,
                              RMul(RSub(waypoints[i + 1].value, waypoints[i].value),
                                   RDiv(RSub(age, waypoints[i].age),
                                        RSub(waypoints[i + 1].age,
                                             waypoints[i].age)))))

interpolateWaypoints(age, waypoints) ==
    IF Len(waypoints) = 0
    THEN Throw("Waypoints array must contain at least one waypoint")
    ELSE IF Len(waypoints) = 1 THEN Return(waypoints[1].value)
    ELSE IF RLe(age, waypoints[1].age) THEN Return(waypoints[1].value)
    ELSE IF RLe(waypoints[Len(waypoints)].age, age)
    THEN Return(waypoints[Len(waypoints)].value)
    ELSE LET i == FindBracket(age, waypoints, 1)
         IN  IF i = 0 THEN Return(waypoints[Len(waypoints)].value)
             ELSE LET lowerWaypoint == waypoints[i]
                      upperWaypoint == waypoints[i + 1]
                      ageProgress ==
                          RDiv(RSub(age, lowerWaypoint.age),
                               RSub(upperWaypoint.age, lowerWaypoint.age))
                  IN  Return(RAdd(lowerWaypoint.value,
                                  RMul(RSub(upperWaypoint.value, lowerWaypoint.value),
                                       ageProgress)))

\* config.equityReturn ?? 0.1 and config.bondReturn ?? 0.04
DefaultEquityReturn == R(1, 10)
DefaultBondReturn == R(4, 100)
OrDefault(v, default) == IF v = Undefined THEN default ELSE v

\* Variant: the default returns are used also when the config gives its own
calculateCustomWaypointsGlidepathDefaultsOnly(age, config) ==
    LET waypoints == SortByAge(config.waypoints)
    IN  IF Len(waypoints) = 0
        THEN Throw("Custom waypoints configuration must have at least one waypoint")
        ELSE LET interpolated == interpolateWaypoints(age, waypoints)
             IN  IF interpolated.throws THEN interpolated
                 ELSE IF config.valueType = "return" THEN interpolated
                 ELSE Return(calculateBlendedReturn(interpolated.value,
                                                    DefaultEquityReturn,
                                                    DefaultBondReturn))

calculateCustomWaypointsGlidepath(age, config) ==
    LET waypoints == SortByAge(config.waypoints)
    IN  IF Len(waypoints) = 0
        THEN Throw("Custom waypoints configuration must have at least one waypoint")
        ELSE LET interpolated == interpolateWaypoints(age, waypoints)
             IN  IF interpolated.throws THEN interpolated
                 ELSE IF config.valueType = "return" THEN interpolated
                 ELSE Return(calculateBlendedReturn(
                                 interpolated.value,
                                 OrDefault(config.equityReturn, DefaultEquityReturn),
                                 OrDefault(config.bondReturn, DefaultBondReturn)))

\* Variant: an unknown mode resolves to a zero return instead of throwing
calculateGlidepathReturnDefaultZero(age, config, startAge, endAge) ==
    CASE config.mode = "fixed-return" ->
            Return(calculateFixedReturnGlidepath(age, config, startAge, endAge))
      [] config.mode = "stepped-return" ->
            Return(calculateSteppedReturnGlidepath(age, config))
      [] config.mode = "allocation-based" ->
            Return(calculateAllocationBasedGlidepath(age, config, startAge, endAge))
      [] config.mode = "custom-waypoints" ->
            calculateCustomWaypointsGlidepath(age, config)
      [] OTHER -> Return(RZero)

calculateGlidepathReturn(age, config, startAge, endAge) ==
    CASE config.mode = "fixed-return" ->
            Return(calculateFixedReturnGlidepath(age, config, startAge, endAge))
      [] config.mode = "stepped-return" ->
            Return(calculateSteppedReturnGlidepath(age, config))
      [] config.mode = "allocation-based" ->
            Return(calculateAllocationBasedGlidepath(age, config, startAge, endAge))
      [] config.mode = "custom-waypoints" ->
            calculateCustomWaypointsGlidepath(age, config)
      [] OTHER -> Throw("Unsupported glidepath mode")

\* Variant: the allocation-based weight runs from the end weight to the start
\* weight
getCurrentEquityWeightReversed(age, config, startAge, endAge) ==
    CASE config.mode = "allocation-based" ->
            LET progress == calculateAgeProgress(age, startAge, endAge)
            IN  RAdd(config.endEquityWeight,
                     RMul(RSub(config.startEquityWeight, config.endEquityWeight),
                          progress))
      [] config.mode = "custom-waypoints" ->
            IF config.valueType # "equityWeight" THEN Undefined
            ELSE LET waypoints == SortByAge(config.waypoints)
                 IN  IF Len(waypoints) = 0 THEN Undefined
                     ELSE interpolateWaypoints(age, waypoints).value
      [] OTHER -> Undefined

\* Variant: a custom-waypoints config yields a weight whatever its valueType
getCurrentEquityWeightAnyValueType(age, config, startAge, endAge) ==
    CASE config.mode = "allocation-based" ->
            LET progress == calculateAgeProgress(age, startAge, endAge)
            IN  RAdd(config.startEquityWeight,
                     RMul(RSub(config.endEquityWeight, config.startEquityWeight),
                          progress))
      [] config.mode = "custom-waypoints" ->
            LET waypoints == SortByAge(config.waypoints)
            IN  IF Len(waypoints) = 0 THEN Undefined
                ELSE interpolateWaypoints(age, waypoints).value
      [] OTHER -> Undefined

getCurrentEquityWeight(age, config, startAge, endAge) ==
    CASE config.mode = "allocation-based" ->
            LET progress == calculateAgeProgress(age, startAge, endAge)
            IN  RAdd(config.startEquityWeight,
                     RMul(RSub(config.endEquityWeight, config.startEquityWeight),
                          progress))
      [] config.mode = "custom-waypoints" ->
            IF config.valueType # "equityWeight" THEN Undefined
            ELSE LET waypoints == SortByAge(config.waypoints)
                 IN  IF Len(waypoints) = 0 THEN Undefined
                     ELSE interpolateWaypoints(age, waypoints).value
      [] OTHER -> Undefined

\* x * y on the rate grid, for x, y >= 0
MulRate(x, y) == (x * y) \div RateScale

\* x^k on the rate grid, by repeated multiplication
RECURSIVE PowRate(_, _)
PowRate(x, k) == IF k = 0 THEN RateScale ELSE MulRate(PowRate(x, k - 1), x)

\* The largest m in lo..hi with (1 + m/RateScale)^12 <= 1 + annualRate, given
\* that lo is such an m
RECURSIVE RootSearch(_, _, _)
RootSearch(annualRate, lo, hi) ==
    IF lo >= hi THEN lo
    ELSE LET mid == (lo + hi + 1) \div 2
         IN  IF PowRate(RateScale + mid, MonthsPerYear) * annualRate.d
                    <= RateScale * (annualRate.d + annualRate.n)
             THEN RootSearch(annualRate, mid, hi)
             ELSE RootSearch(annualRate, lo, mid - 1)

\* Math.pow(1 + annualRate, 1 / 12) - 1 on the rate grid, for annual returns
\* from -100% up to the one whose monthly equivalent is 1/12
convertAnnualToMonthlyRate(annualRate) ==
    RootSearch(annualRate, -RateScale, RateScale \div MonthsPerYear)

-----------------------------------------------------------------------------
(* Glidepath monthly simulator: getCompoundInterestWithGlidepath *)

\* Variant: equal start and end ages pass the age-order check
ValidationErrorStrictAgeOrder(a) ==
    IF a.initialBalance < 0 THEN "Initial balance must be non-negative"
    ELSE IF a.contributionAmount < 0 THEN "Contribution amount must be non-negative"
    ELSE IF RLe(a.startAge, RZero) \/ RLe(a.endAge, RZero) THEN "Ages must be positive"
    ELSE IF RLt(a.endAge, a.startAge) THEN "Start age must be less than end age"
    ELSE IF a.contributionFrequency <= 0 \/ a.compoundingFrequency <= 0
    THEN "Frequencies must be positive"
    ELSE NoError

\* Variant: the order of the ages is checked before their signs
ValidationErrorAgeOrderFirst(a) ==
    IF a.initialBalance < 0 THEN "Initial balance must be non-negative"
    ELSE IF a.contributionAmount < 0 THEN "Contribution amount must be non-negative"
    ELSE IF RLe(a.endAge, a.startAge) THEN "Start age must be less than end age"
    ELSE IF RLe(a.startAge, RZero) \/ RLe(a.endAge, RZero) THEN "Ages must be positive"
    ELSE IF a.contributionFrequency <= 0 \/ a.compoundingFrequency <= 0
    THEN "Frequencies must be positive"
    ELSE NoError

\* The input validation, in the order of the code; NoError when all checks pass
ValidationError(a) ==
    IF a.initialBalance < 0 THEN "Initial balance must be non-negative"
    ELSE IF a.contributionAmount < 0 THEN "Contribution amount must be non-negative"
    ELSE IF RLe(a.startAge, RZero) \/ RLe(a.endAge, RZero) THEN "Ages must be positive"
    ELSE IF RLe(a.endAge, a.startAge) THEN "Start age must be less than end age"
    ELSE IF a.contributionFrequency <= 0 \/ a.compoundingFrequency <= 0
    THEN "Frequencies must be positive"
    ELSE NoError

TotalYears(a) == RSub(a.endAge, a.startAge)
\* Variant: a started month at the end of the span is dropped
TotalMonthsFloor(a) == RFloor(RMul(RSub(a.endAge, a.startAge), RInt(MonthsPerYear)))

\* Variant: only the months of whole years are simulated
TotalMonthsOfWholeYears(a) == RFloor(TotalYears(a)) * MonthsPerYear

TotalMonths(a) == RCeil(RMul(TotalYears(a), RInt(MonthsPerYear)))

\* Ages are doubles. The spacing of doubles doubles at every power of two:
\* below AgeBinade the model's doubles are the multiples of 1/FineAgeGrid
\* year, which holds every age drawn and every whole month after it, and from
\* AgeBinade on they are the multiples of 2/FineAgeGrid.
AgeBinade == 2 ^ 5
FineAgeGrid == MonthsPerYear * AgeGrid
AgeSpacing(x) == IF RLt(x, RInt(AgeBinade)) THEN 1 ELSE 2

\* The double nearest to x, the even one of two equally near
RoundToDouble(x) ==
    LET spacing == AgeSpacing(x)
        t == RMul(x, R(FineAgeGrid, spacing))
        lo == RFloor(t)
        twiceRest == RSub(RMul(t, RInt(2)), RInt(2 * lo))
        k == IF RLt(twiceRest, ROne) THEN lo
             ELSE IF RLt(ROne, twiceRest) THEN lo + 1
             ELSE IF lo % 2 = 0 THEN lo ELSE lo + 1
    IN  R(k * spacing, FineAgeGrid)

\* Line 511: the sum is a double
CurrentAge(a, m) == RoundToDouble(RAdd(a.startAge, R(m - 1, MonthsPerYear)))

\* Variant: the contribution falls one month after each multiple
ContributionThisMonthOffByOne(a, m) ==
    LET compoundMultiplier ==
            getCompoundMultiplier(a.contributionFrequency, a.compoundingFrequency)
        howOftenToCompound ==
            getHowOftenToCompound(a.contributionFrequency, a.compoundingFrequency)
    IN  IF m % howOftenToCompound = 1
        THEN MulMoney(a.contributionAmount, compoundMultiplier)
        ELSE 0

\* contributionThisMonth of the loop body
ContributionThisMonth(a, m) ==
    LET compoundMultiplier ==
            getCompoundMultiplier(a.contributionFrequency, a.compoundingFrequency)
        howOftenToCompound ==
            getHowOftenToCompound(a.contributionFrequency, a.compoundingFrequency)
    IN  IF m % howOftenToCompound = 0
        THEN MulMoney(a.contributionAmount, compoundMultiplier)
        ELSE 0

\* balance * monthlyReturnRate, rounded down to the money grid
InterestOn(bal, monthlyReturnRate) == (bal * monthlyReturnRate) \div RateScale

\* Variant: the contribution joins the balance first whatever the timing is
AddsAtStartAlways(a, contributionThisMonth) == contributionThisMonth > 0

\* Variant: the start-of-month addition is made for timing 'end'
AddsAtStartWhenEnd(a, contributionThisMonth) ==
    a.contributionTiming = "end" /\ contributionThisMonth > 0

\* Line 532 and line 543: when the month's contribution joins the balance
AddsAtStart(a, contributionThisMonth) ==
    a.contributionTiming = "start" /\ contributionThisMonth > 0

AddsAtEnd(a, contributionThisMonth) ==
    a.contributionTiming = "end" /\ contributionThisMonth > 0

\* One iteration of the loop for month m from the accumulators bal, tc, ti:
\* either the resolver throws, or the new accumulators and the timeline entry.
MonthBody(a, m, bal, tc, ti) ==
    LET currentAge == CurrentAge(a, m)
        resolved == calculateGlidepathReturn(currentAge, a.glidepathConfig,
                                             a.startAge, a.endAge)
    IN  IF resolved.throws THEN resolved
        ELSE
        LET annualReturnRate == resolved.value
            monthlyReturnRate == convertAnnualToMonthlyRate(annualReturnRate)
            contributionThisMonth == ContributionThisMonth(a, m)
            atStart == AddsAtStart(a, contributionThisMonth)
            atEnd == AddsAtEnd(a, contributionThisMonth)
            bal1 == IF atStart THEN bal + contributionThisMonth ELSE bal
            tc1 == IF atStart THEN tc + contributionThisMonth ELSE tc
            interestEarnedThisMonth == InterestOn(bal1, monthlyReturnRate)
            bal2 == bal1 + interestEarnedThisMonth
            ti2 == ti + interestEarnedThisMonth
            bal3 == IF atEnd THEN bal2 + contributionThisMonth ELSE bal2
            tc3 == IF atEnd THEN tc1 + contributionThisMonth ELSE tc1
            currentEquityWeight ==
                getCurrentEquityWeight(currentAge, a.glidepathConfig,
                                       a.startAge, a.endAge)
        IN  [throws |-> FALSE,
             balance |-> bal3,
             totalContributions |-> tc3,
             totalInterestEarned |-> ti2,
             entry |-> [month |-> m,
                        age |-> currentAge,
                        currentBalance |-> bal3,
                        cumulativeContributions |-> tc3,
                        cumulativeInterest |-> ti2,
                        monthlyInterestEarned |-> interestEarnedThisMonth,
                        currentAnnualReturn |-> annualReturnRate,
                        currentMonthlyReturn |-> monthlyReturnRate,
                        currentEquityWeight |-> currentEquityWeight]]

\* Variant: the final balance is truncated to the cent
RoundToCentDown(bal) == (bal \div SubCent) * SubCent

\* Math.round(balance * 100) / 100: to the nearest cent, halves up
RoundToCent(bal) == ((2 * bal + SubCent) \div (2 * SubCent)) * SubCent

\* Math.pow(base, 1 / years) - 1, kept as its two arguments
AnnualizedGrowth(base, years) == [base |-> base, years |-> years]

RECURSIVE SumMonthlyReturn(_)
SumMonthlyReturn(timeline) ==
    IF timeline = <<>> THEN 0
    ELSE Head(timeline).currentMonthlyReturn + SumMonthlyReturn(Tail(timeline))

\* Variant: the average rate is computed whenever the principal is positive,
\* also when the interest is not
SummaryAnyInterest(a, bal, tc, ti, timeline) ==
    [finalBalance |-> RoundToCent(bal),
     totalContributions |-> tc,
     totalInterestEarned |-> ti,
     totalMonths |-> TotalMonths(a),
     startAge |-> a.startAge,
     endAge |-> a.endAge,
     glidepathMode |-> a.glidepathConfig.mode,
     monthlyTimeline |-> timeline,
     effectiveAnnualReturn |->
         IF ti = 0 THEN RZero
         ELSE IF a.initialBalance = 0
         THEN IF tc > 0 THEN AnnualizedGrowth(R(bal, tc), TotalYears(a)) ELSE RZero
         ELSE AnnualizedGrowth(R(bal, a.initialBalance), TotalYears(a)),
     averageAnnualInterestRate |->
         IF a.initialBalance + tc > 0
         THEN RDiv(RDiv(RInt(ti), TotalYears(a)), RInt(a.initialBalance + tc))
         ELSE RZero,
     averageMonthlyReturn |->
         R(SumMonthlyReturn(timeline), RateScale * Len(timeline))]

\* The summary statistics and the returned object
Summary(a, bal, tc, ti, timeline) ==
    LET totalYears == TotalYears(a)
        effectiveAnnualReturn ==
            IF ti = 0 THEN RZero
            ELSE IF a.initialBalance = 0
            THEN IF tc > 0 THEN AnnualizedGrowth(R(bal, tc), totalYears) ELSE RZero
            ELSE AnnualizedGrowth(R(bal, a.initialBalance), totalYears)
        averageMonthlyReturn ==
            R(SumMonthlyReturn(timeline), RateScale * Len(timeline))
        totalInvested == a.initialBalance + tc
        averageAnnualInterestRate ==
            IF totalInvested > 0 /\ ti > 0
            THEN RDiv(RDiv(RInt(ti), totalYears), RInt(totalInvested))
            ELSE RZero
    IN  [finalBalance |-> RoundToCent(bal),
         totalContributions |-> tc,
         totalInterestEarned |-> ti,
         totalMonths |-> TotalMonths(a),
         startAge |-> a.startAge,
         endAge |-> a.endAge,
         glidepathMode |-> a.glidepathConfig.mode,
         monthlyTimeline |-> timeline,
         effectiveAnnualReturn |-> effectiveAnnualReturn,
         averageAnnualInterestRate |-> averageAnnualInterestRate,
         averageMonthlyReturn |-> averageMonthlyReturn]

\* The loop from month m on; acc holds the accumulators and the timeline
RECURSIVE RunMonths(_, _, _)
RunMonths(a, m, acc) ==
    IF m > TotalMonths(a) THEN acc
    ELSE LET step == MonthBody(a, m, acc.balance, acc.totalContributions,
                               acc.totalInterestEarned)
         IN  IF step.throws THEN step
             ELSE RunMonths(a, m + 1,
                            [throws |-> FALSE,
                             balance |-> step.balance,
                             totalContributions |-> step.totalContributions,
                             totalInterestEarned |-> step.totalInterestEarned,
                             monthlyTimeline |->
                                 Append(acc.monthlyTimeline, step.entry)])

\* A whole call of getCompoundInterestWithGlidepath: what it returns or throws
getCompoundInterestWithGlidepath(a) ==
    IF ValidationError(a) # NoError THEN Throw(ValidationError(a))
    ELSE LET end == RunMonths(a, 1, [throws |-> FALSE,
                                     balance |-> a.initialBalance,
                                     totalContributions |-> 0,
                                     totalInterestEarned |-> 0,
                                     monthlyTimeline |-> <<>>])
         IN  IF end.throws THEN end
             ELSE Return(Summary(a, end.balance, end.totalContributions,
                                 end.totalInterestEarned, end.monthlyTimeline))

\* Lines 466-506: validation, then the initial simulation state
Validate ==
    /\ pc = "start"
    /\ IF ValidationError(args) # NoError
       THEN /\ pc' = "error"
            /\ error' = ValidationError(args)
            /\ UNCHANGED <<month, balance, totalContributions,
                           totalInterestEarned, monthlyTimeline>>
       ELSE /\ pc' = "loop"
            /\ month' = 1
            /\ balance' = args.initialBalance
            /\ totalContributions' = 0
            /\ totalInterestEarned' = 0
            /\ monthlyTimeline' = <<>>
            /\ UNCHANGED error
    /\ UNCHANGED <<args, result, probe>>
    /\ UNCHANGED ledgerVars
    /\ UNCHANGED builderVars

\* Lines 509-570: one iteration of the monthly simulation loop
MonthStep ==
    /\ pc = "loop"
    /\ month <= TotalMonths(args)
    /\ LET step == MonthBody(args, month, balance, totalContributions,
                             totalInterestEarned)
       IN  IF step.throws
           THEN /\ pc' = "error"
                /\ error' = step.error
                /\ UNCHANGED <<month, balance, totalContributions,
                               totalInterestEarned, monthlyTimeline>>
           ELSE /\ balance' = step.balance
                /\ totalContributions' = step.totalContributions
                /\ totalInterestEarned' = step.totalInterestEarned
                /\ monthlyTimeline' = Append(monthlyTimeline, step.entry)
                /\ month' = month + 1
                /\ UNCHANGED <<pc, error>>
    /\ UNCHANGED <<args, result, probe>>
    /\ UNCHANGED ledgerVars
    /\ UNCHANGED builderVars

\* Lines 572-617: the loop has ended; summary statistics and return
Finish ==
    /\ pc = "loop"
    /\ month > TotalMonths(args)
    /\ pc' = "done"
    /\ result' = Summary(args, balance, totalContributions, totalInterestEarned,
                         monthlyTimeline)
    /\ UNCHANGED <<args, month, balance, totalContributions, totalInterestEarned,
                   monthlyTimeline, error, probe>>
    /\ UNCHANGED ledgerVars
    /\ UNCHANGED builderVars

-----------------------------------------------------------------------------
(* Fixed-rate period ledger: getCompoundInterestWithAdditionalContributions *)

\* Variant: one period too many
getTotalPeriodsPlusOne(years, periodsPerYear) ==
    RAdd(RMul(years, RInt(periodsPerYear)), ROne)

getTotalPeriods(years, periodsPerYear) == RMul(years, RInt(periodsPerYear))

getInterestRatePerPeriod(interestRate, compoundingFrequency) ==
    RDiv(interestRate, RInt(compoundingFrequency))

\* Variant: the period's interest is computed before its contribution is added
PeriodBodyInterestFirst(a, p, bal, tc, ti) ==
    LET contributes ==
            p % getHowOftenToCompound(a.contributionFrequency,
                                      a.compoundingFrequency) = 0
        contributionThisPeriod ==
            MulMoney(a.additionalContributionAmount,
                     getCompoundMultiplier(a.contributionFrequency,
                                           a.compoundingFrequency))
        interestEarnedThisPeriod ==
            MulMoney(bal, getInterestRatePerPeriod(a.interestRate,
                                                   a.compoundingFrequency))
        tc1 == IF contributes THEN tc + contributionThisPeriod ELSE tc
        bal2 == (IF contributes THEN bal + contributionThisPeriod ELSE bal)
                    + interestEarnedThisPeriod
    IN  [balance |-> bal2,
         totalContributions |-> tc1,
         totalInterestEarned |-> ti + interestEarnedThisPeriod,
         detail |-> [period |-> p,
                     balance |-> bal2,
                     contributionTotal |-> tc1,
                     interestTotal |-> ti + interestEarnedThisPeriod,
                     interestEarnedThisPeriod |-> interestEarnedThisPeriod,
                     balanceFromContributions |-> tc1,
                     balanceFromInterest |-> bal2 - tc1]]

\* Variant: the period's interest is left out of totalInterestEarned
PeriodBodyInterestUncounted(a, p, bal, tc, ti) ==
    LET compoundMultiplier ==
            getCompoundMultiplier(a.contributionFrequency, a.compoundingFrequency)
        howOftenToCompound ==
            getHowOftenToCompound(a.contributionFrequency, a.compoundingFrequency)
        interestRatePerPeriod ==
            getInterestRatePerPeriod(a.interestRate, a.compoundingFrequency)
        contributes == p % howOftenToCompound = 0
        contributionThisPeriod ==
            MulMoney(a.additionalContributionAmount, compoundMultiplier)
        tc1 == IF contributes THEN tc + contributionThisPeriod ELSE tc
        bal1 == IF contributes THEN bal + contributionThisPeriod ELSE bal
        interestEarnedThisPeriod == MulMoney(bal1, interestRatePerPeriod)
        bal2 == bal1 + interestEarnedThisPeriod
    IN  [balance |-> bal2,
         totalContributions |-> tc1,
         totalInterestEarned |-> ti,
         detail |-> [period |-> p,
                     balance |-> bal2,
                     contributionTotal |-> tc1,
                     interestTotal |-> ti,
                     interestEarnedThisPeriod |-> interestEarnedThisPeriod,
                     balanceFromContributions |-> tc1,
                     balanceFromInterest |-> bal2 - tc1]]

\* One iteration of the loop for period p from the accumulators bal, tc, ti:
\* the new accumulators and the row pushed to compoundingPeriodDetails
PeriodBody(a, p, bal, tc, ti) ==
    LET compoundMultiplier ==
            getCompoundMultiplier(a.contributionFrequency, a.compoundingFrequency)
        howOftenToCompound ==
            getHowOftenToCompound(a.contributionFrequency, a.compoundingFrequency)
        interestRatePerPeriod ==
            getInterestRatePerPeriod(a.interestRate, a.compoundingFrequency)
        contributes == p % howOftenToCompound = 0
        contributionThisPeriod ==
            MulMoney(a.additionalContributionAmount, compoundMultiplier)
        tc1 == IF contributes THEN tc + contributionThisPeriod ELSE tc
        bal1 == IF contributes THEN bal + contributionThisPeriod ELSE bal
        interestEarnedThisPeriod == MulMoney(bal1, interestRatePerPeriod)
        ti2 == ti + interestEarnedThisPeriod
        bal2 == bal1 + interestEarnedThisPeriod
    IN  [balance |-> bal2,
         totalContributions |-> tc1,
         totalInterestEarned |-> ti2,
         detail |-> [period |-> p,
                     balance |-> bal2,
                     contributionTotal |-> tc1,
                     interestTotal |-> ti2,
                     interestEarnedThisPeriod |-> interestEarnedThisPeriod,
                     balanceFromContributions |-> tc1,
                     balanceFromInterest |-> bal2 - tc1]]

\* Variant: the return is always measured against the initial balance
ProjectionResultAgainstInitialBalance(a, bal, tc, ti, details) ==
    [balance |-> bal,
     totalContributions |-> tc,
     totalInterestEarned |-> ti,
     years |-> a.years,
     contributionFrequency |-> a.contributionFrequency,
     compoundingFrequency |-> a.compoundingFrequency,
     compoundingPeriodDetails |-> details,
     effectiveAnnualReturn |->
         IF ti = 0 THEN RZero
         ELSE AnnualizedGrowth(R(bal, a.initialBalance), a.years),
     averageAnnualInterestRate |->
         IF a.initialBalance + tc > 0 /\ ti > 0
         THEN RDiv(RDiv(RInt(ti), a.years), RInt(a.initialBalance + tc))
         ELSE RZero]

\* The return metrics and the returned object
ProjectionResult(a, bal, tc, ti, details) ==
    LET effectiveAnnualReturn ==
            IF ti = 0 THEN RZero
            ELSE IF a.initialBalance = 0
            THEN IF tc > 0 THEN AnnualizedGrowth(R(bal, tc), a.years) ELSE RZero
            ELSE AnnualizedGrowth(R(bal, a.initialBalance), a.years)
        totalInvested == a.initialBalance + tc
        averageAnnualInterestRate ==
            IF totalInvested > 0 /\ ti > 0
            THEN RDiv(RDiv(RInt(ti), a.years), RInt(totalInvested))
            ELSE RZero
    IN  [balance |-> bal,
         totalContributions |-> tc,
         totalInterestEarned |-> ti,
         years |-> a.years,
         contributionFrequency |-> a.contributionFrequency,
         compoundingFrequency |-> a.compoundingFrequency,
         compoundingPeriodDetails |-> details,
         effectiveAnnualReturn |-> effectiveAnnualReturn,
         averageAnnualInterestRate |-> averageAnnualInterestRate]

\* The loop from period p on; acc holds the accumulators and the rows
RECURSIVE RunPeriods(_, _, _)
RunPeriods(a, p, acc) ==
    IF ~RLe(RInt(p), getTotalPeriods(a.years, a.compoundingFrequency)) THEN acc
    ELSE LET step == PeriodBody(a, p, acc.balance, acc.totalContributions,
                                acc.totalInterestEarned)
         IN  RunPeriods(a, p + 1,
                        [balance |-> step.balance,
                         totalContributions |-> step.totalContributions,
                         totalInterestEarned |-> step.totalInterestEarned,
                         compoundingPeriodDetails |->
                             Append(acc.compoundingPeriodDetails, step.detail)])

\* A whole call of getCompoundInterestWithAdditionalContributions: what it
\* returns
getCompoundInterestWithAdditionalContributions(a) ==
    LET end == RunPeriods(a, 1, [balance |-> a.initialBalance,
                                 totalContributions |-> 0,
                                 totalInterestEarned |-> 0,
                                 compoundingPeriodDetails |-> <<>>])
    IN  ProjectionResult(a, end.balance, end.totalContributions,
                         end.totalInterestEarned, end.compoundingPeriodDetails)

\* Lines 298-315: the initial state of the ledger
StartProjection ==
    /\ pc = "project"
    /\ pc' = "periods"
    /\ period' = 1
    /\ balance' = args.initialBalance
    /\ totalContributions' = 0
    /\ totalInterestEarned' = 0
    /\ compoundingPeriodDetails' = <<>>
    /\ UNCHANGED <<args, month, monthlyTimeline, yearlyData, result, error, probe>>
    /\ UNCHANGED builderVars

\* Lines 317-344: one iteration of the period loop
PeriodStep ==
    /\ pc = "periods"
    /\ RLe(RInt(period), getTotalPeriods(args.years, args.compoundingFrequency))
    /\ LET step == PeriodBody(args, period, balance, totalContributions,
                              totalInterestEarned)
       IN  /\ balance' = step.balance
           /\ totalContributions' = step.totalContributions
           /\ totalInterestEarned' = step.totalInterestEarned
           /\ compoundingPeriodDetails' =
                  Append(compoundingPeriodDetails, step.detail)
    /\ period' = period + 1
    /\ UNCHANGED <<args, pc, month, monthlyTimeline, yearlyData, result, error,
                   probe>>
    /\ UNCHANGED builderVars

\* Lines 346-379: the loop has ended; return metrics and return
FinishProjection ==
    /\ pc = "periods"
    /\ ~RLe(RInt(period), getTotalPeriods(args.years, args.compoundingFrequency))
    /\ pc' = "projected"
    /\ result' = ProjectionResult(args, balance, totalContributions,
                                  totalInterestEarned, compoundingPeriodDetails)
    /\ UNCHANGED <<args, month, balance, totalContributions, totalInterestEarned,
                   monthlyTimeline, period, compoundingPeriodDetails, yearlyData,
                   error, probe>>
    /\ UNCHANGED builderVars

-----------------------------------------------------------------------------
(* Yearly aggregation of the ledger: aggregateDataByYear *)

\* Variant: the first period of a year starts from that period's own amounts,
\* so a row holds the amounts of its year only
AggregatePeriodsOfTheYearOnly(details, p, startPeriod, endPeriod, acc) ==
    LET prevContributions ==
            IF startPeriod = 1 THEN 0 ELSE details[startPeriod - 1].contributionTotal
        prevInterest ==
            IF startPeriod = 1 THEN 0 ELSE details[startPeriod - 1].interestTotal
    IN  IF endPeriod > Len(details) THEN acc
        ELSE [cumulativeContributions |->
                  details[endPeriod].contributionTotal - prevContributions,
              cumulativeInterest |->
                  details[endPeriod].interestTotal - prevInterest]

\* The inner loop from period p on: compoundingPeriodDetails[period - 1] of
\* the code is details[p] here, undefined when p > Len(details)
RECURSIVE AggregatePeriods(_, _, _, _, _)
AggregatePeriods(details, p, startPeriod, endPeriod, acc) ==
    IF p > endPeriod THEN acc
    ELSE IF p > Len(details)
    THEN AggregatePeriods(details, p + 1, startPeriod, endPeriod, acc)
    ELSE LET detail == details[p]
         IN  AggregatePeriods(
                 details, p + 1, startPeriod, endPeriod,
                 IF p = startPeriod
                 THEN [cumulativeContributions |-> detail.contributionTotal,
                       cumulativeInterest |-> detail.interestTotal]
                 ELSE [cumulativeContributions |->
                           acc.cumulativeContributions
                               + (detail.contributionTotal
                                      - details[p - 1].contributionTotal),
                       cumulativeInterest |->
                           acc.cumulativeInterest
                               + (detail.interestTotal
                                      - details[p - 1].interestTotal)])

\* The outer loop from year on; reading the balance of a row that does not
\* exist throws a TypeError
RECURSIVE AggregateYears(_, _, _, _)
AggregateYears(compoundingDetails, year, acc, rows) ==
    IF ~RLe(RInt(year), compoundingDetails.years) THEN Return(rows)
    ELSE LET details == compoundingDetails.compoundingPeriodDetails
             compoundingFrequency == compoundingDetails.compoundingFrequency
             startPeriod == (year - 1) * compoundingFrequency + 1
             endPeriod == year * compoundingFrequency
             sums == AggregatePeriods(details, startPeriod, startPeriod,
                                      endPeriod, acc)
         IN  IF endPeriod < 1 \/ endPeriod > Len(details)
             THEN Throw("TypeError")
             ELSE AggregateYears(
                      compoundingDetails, year + 1, sums,
                      Append(rows,
                             [year |-> year,
                              cumulativeContributions |->
                                  sums.cumulativeContributions,
                              cumulativeInterest |-> sums.cumulativeInterest,
                              endOfYearBalance |-> details[endPeriod].balance]))

aggregateDataByYear(compoundingDetails) ==
    AggregateYears(compoundingDetails, 1,
                   [cumulativeContributions |-> 0, cumulativeInterest |-> 0],
                   <<>>)

\* Lines 389-436: the whole call, on the object the projection has returned
Aggregate ==
    /\ pc = "projected"
    /\ pc' = "aggregated"
    /\ LET aggregated == aggregateDataByYear(result)
       IN  IF aggregated.throws
           THEN error' = aggregated.error /\ UNCHANGED yearlyData
           ELSE yearlyData' = aggregated.value /\ UNCHANGED error
    /\ UNCHANGED <<args, month, balance, totalContributions, totalInterestEarned,
                   monthlyTimeline, period, compoundingPeriodDetails, result, probe>>
    /\ UNCHANGED builderVars

-----------------------------------------------------------------------------
(* Contribution sizing: getContributionNeededForDesiredBalance *)

\* The doubles that are not rationals: the infinities and the negative zero
\* (NaN is defined above); RLt and RLe compare them with 0 as doubles do
PosInfinity == [n |-> 1, d |-> 0]
NegInfinity == [n |-> -1, d |-> 0]
NegZero == [n |-> 0, d |-> -1]
IsZero(x) == x.n = 0 /\ x.d # 0

\* x / y for finite doubles x and y, with the signed zeros and infinities of
\* IEEE division
Divide(x, y) ==
    IF IsZero(y)
    THEN IF x.n = 0 THEN NaN
         ELSE IF (x.n > 0) = (y.d > 0) THEN PosInfinity ELSE NegInfinity
    ELSE IF IsZero(x)
    THEN IF (x.d > 0) = (y.n > 0) THEN RZero ELSE NegZero
    ELSE RDiv(x, y)

\* x * k for k > 0: an infinity, NaN or negative zero stays what it is
ScaleBy(x, k) == IF x.d > 0 THEN RMul(x, k) ELSE x

\* x ** e for a whole exponent e (e.d = 1)
RECURSIVE PowR(_, _)
PowR(x, k) == IF k = 0 THEN ROne ELSE RMul(PowR(x, k - 1), x)
RPow(x, e) == IF e.n >= 0 THEN PowR(x, e.n) ELSE RDiv(ROne, PowR(x, -e.n))

adjustDesiredBalanceDueToInflation(desiredBalance, years, inflationRate) ==
    RMul(desiredBalance, RPow(RAdd(ROne, inflationRate), years))

getValueAfterInflation(bal, inflationRate, years) ==
    RDiv(bal, RPow(RAdd(ROne, inflationRate), years))

\* Variant: the starting balance earns simple interest
getInterestOverTimeSimple(startingBalance, interestRate, periods) ==
    RMul(startingBalance, RAdd(ROne, RMul(interestRate, periods)))

getInterestOverTime(startingBalance, interestRate, periods) ==
    RMul(startingBalance, RPow(RAdd(ROne, interestRate), periods))

\* Variant: the series is summed to (1 + r)^(N - 1) only
getAdditionalContributionsTotalInterestMultiplierShort(interestRate, periods) ==
    IF interestRate = RZero THEN periods
    ELSE Divide(RSub(RPow(RAdd(ROne, interestRate), periods),
                     RAdd(ROne, interestRate)),
                interestRate)

getAdditionalContributionsTotalInterestMultiplier(interestRate, periods) ==
    IF interestRate = RZero THEN periods
    ELSE LET r == RAdd(ROne, interestRate)
         IN  Divide(RSub(RPow(r, RAdd(periods, ROne)), r), interestRate)

convertBalanceBasedOnFrequency(bal, contributionFrequency, compoundingFrequency) ==
    IF RLt(bal, RZero) THEN RZero
    ELSE IF compoundingFrequency > contributionFrequency
    THEN ScaleBy(bal, R(compoundingFrequency, contributionFrequency))
    ELSE IF contributionFrequency > compoundingFrequency
    THEN ScaleBy(bal, R(1, RFloor(R(contributionFrequency, compoundingFrequency))))
    ELSE bal

\* inflationRate: number = 0.02
DefaultInflationRate == R(2, 100)

getContributionNeededForDesiredBalance(a) ==
    LET inflationRate ==
            IF a.inflationRate = Undefined THEN DefaultInflationRate
            ELSE a.inflationRate
        periods == getTotalPeriods(a.years, a.compoundingFrequency)
        interestRatePerPeriod ==
            getInterestRatePerPeriod(a.interestRate, a.compoundingFrequency)
        startingBalanceWithInterest ==
            getInterestOverTime(a.startingBalance, interestRatePerPeriod, periods)
        additionalContributionsInterestRate ==
            getAdditionalContributionsTotalInterestMultiplier(
                interestRatePerPeriod, periods)
        desiredBalanceWithInflation ==
            adjustDesiredBalanceDueToInflation(a.desiredBalance, a.years,
                                               inflationRate)
        desiredBalanceValueAfterInflation ==
            getValueAfterInflation(a.desiredBalance, inflationRate, a.years)
    IN  [contributionNeededPerPeriod |->
             convertBalanceBasedOnFrequency(
                 Divide(RSub(a.desiredBalance, startingBalanceWithInterest),
                        additionalContributionsInterestRate),
                 a.contributionFrequency, a.compoundingFrequency),
         contributionNeededPerPeriodWithInflation |->
             convertBalanceBasedOnFrequency(
                 Divide(RSub(desiredBalanceWithInflation,
                             startingBalanceWithInterest),
                        additionalContributionsInterestRate),
                 a.contributionFrequency, a.compoundingFrequency),
         desiredBalance |-> a.desiredBalance,
         desiredBalanceWithInflation |-> desiredBalanceWithInflation,
         desiredBalanceValueAfterInflation |-> desiredBalanceValueAfterInflation]

\* Lines 232-277: the whole call
SizeContribution ==
    /\ pc = "size"
    /\ pc' = "sized"
    /\ result' = getContributionNeededForDesiredBalance(args)
    /\ UNCHANGED <<args, month, balance, totalContributions, totalInterestEarned,
                   monthlyTimeline, period, compoundingPeriodDetails, yearlyData,
                   error, probe>>
    /\ UNCHANGED builderVars

-----------------------------------------------------------------------------
(* Inputs *)

BaseAge == 25          \* the youngest valid age drawn
MaxSpanTicks == 12     \* the longest simulated span, in steps of 1/AgeGrid year
MaxBalanceDollars == 1000
MaxContributionDollars == 100

\* The age BaseAge + k/AgeGrid, and p percent
A(k) == R(BaseAge * AgeGrid + k, AgeGrid)
Pct(p) == R(p, 100)

FixedReturnConfigs ==
    { [mode |-> "fixed-return", startReturn |-> Pct(c[1]), endReturn |-> Pct(c[2])] :
        c \in {<<10, 5>>, <<0, 0>>, <<-6, 6>>} }

\* Declines that reach the terminal return early and not at all, and a base
\* return below the terminal return
SteppedReturnConfigs ==
    { [mode |-> "stepped-return", baseReturn |-> Pct(c[1]), declineRate |-> Pct(12),
       terminalReturn |-> Pct(c[2]), declineStartAge |-> A(2), terminalAge |-> A(8)] :
        c \in {<<10, 9>>, <<10, 5>>, <<4, 6>>} }

AllocationBasedConfigs ==
    { [mode |-> "allocation-based",
       startEquityWeight |-> Pct(c[1]), endEquityWeight |-> Pct(c[2]),
       equityReturn |-> Pct(c[3]), bondReturn |-> Pct(c[4])] :
        c \in {<<90, 30, 12, 4>>, <<50, 100, 8, 0>>} }

W(k, p) == [age |-> A(k), value |-> Pct(p)]

CustomWaypointsConfigs ==
    { [mode |-> "custom-waypoints", valueType |-> "return",
       waypoints |-> <<W(6, 5), W(0, 10)>>,
       equityReturn |-> Undefined, bondReturn |-> Undefined],
      [mode |-> "custom-waypoints", valueType |-> "return",
       waypoints |-> <<W(2, 10), W(4, 8), W(4, 6), W(9, 5)>>,
       equityReturn |-> Undefined, bondReturn |-> Undefined],
      [mode |-> "custom-waypoints", valueType |-> "equityWeight",
       waypoints |-> <<W(3, 70)>>,
       equityReturn |-> Undefined, bondReturn |-> Undefined],
      [mode |-> "custom-waypoints", valueType |-> "equityWeight",
       waypoints |-> <<W(7, 30), W(1, 100), W(4, 60)>>,
       equityReturn |-> Pct(11), bondReturn |-> R(35, 1000)] }

WellFormedConfigs ==
    FixedReturnConfigs \cup SteppedReturnConfigs \cup AllocationBasedConfigs
        \cup CustomWaypointsConfigs

MalformedConfigs ==
    { [mode |-> "invalid-mode"],
      [mode |-> "custom-waypoints", valueType |-> "return", waypoints |-> <<>>,
       equityReturn |-> Undefined, bondReturn |-> Undefined],
      [mode |-> "custom-waypoints", valueType |-> "equityWeight", waypoints |-> <<>>,
       equityReturn |-> Undefined, bondReturn |-> Undefined] }

WellFormed(config) ==
    /\ config.mode \in {"fixed-return", "stepped-return", "allocation-based",
                        "custom-waypoints"}
    /\ config.mode = "custom-waypoints" => Len(config.waypoints) > 0

Args(b, c, s, e, g, cf, pf, t) ==
    [initialBalance |-> b, contributionAmount |-> c, startAge |-> s, endAge |-> e,
     glidepathConfig |-> g, contributionFrequency |-> cf,
     compoundingFrequency |-> pf, contributionTiming |-> t]

\* Valid and invalid values of every validated argument, with a well-formed
\* and the malformed configs
ValidationInputs ==
    { Args(b, c, s, e, g, cf, pf, "start") :
        b \in {-1, 0, MaxBalanceDollars * MoneyScale},
        c \in {-1, 0, MaxContributionDollars * MoneyScale},
        s \in {R(-1, AgeGrid), RZero, A(0), A(1)},
        e \in {RZero, A(0), A(1)},
        g \in {[mode |-> "fixed-return", startReturn |-> Pct(10),
                endReturn |-> Pct(5)]} \cup MalformedConfigs,
        cf \in {-1, 0, MONTHLY},
        pf \in {0, MONTHLY} }

\* Valid arguments with every kind of well-formed config
SimulationInputs ==
    { Args(b, c, A(s), A(s + k), g, cf, pf, t) :
        b \in {0, MaxBalanceDollars * MoneyScale + 5},
        c \in {0, MaxContributionDollars * MoneyScale + 3},
        s \in {0, 1},
        k \in {1, 5, MaxSpanTicks},
        g \in WellFormedConfigs,
        cf \in {YEARLY, MONTHLY, WEEKLY},
        pf \in {2, MONTHLY},
        t \in {"start", "end"} }

\* Simulations that cross AgeBinade: from the last double below it to the
\* double nearest to j months and one step of 1/FineAgeGrid later
JustBelowBinade == R(AgeBinade * FineAgeGrid - 1, FineAgeGrid)
BinadeCrossingInputs ==
    { Args(MaxBalanceDollars * MoneyScale, MaxContributionDollars * MoneyScale,
           JustBelowBinade,
           RoundToDouble(RAdd(JustBelowBinade, R(j * AgeGrid + 1, FineAgeGrid))),
           g, MONTHLY, MONTHLY, t) :
        j \in {1, 2},
        g \in { [mode |-> "fixed-return", startReturn |-> Pct(10),
                 endReturn |-> Pct(5)],
                [mode |-> "allocation-based",
                 startEquityWeight |-> Pct(90), endEquityWeight |-> Pct(30),
                 equityReturn |-> Pct(12), bondReturn |-> Pct(4)] },
        t \in {"start", "end"} }

\* Simulations whose equity weight starts at zero
ZeroWeightInputs ==
    { Args(MaxBalanceDollars * MoneyScale, MaxContributionDollars * MoneyScale,
           A(0), A(5),
           [mode |-> "custom-waypoints", valueType |-> "equityWeight",
            waypoints |-> <<W(0, 0), W(4, 50)>>,
            equityReturn |-> Undefined, bondReturn |-> Undefined],
           MONTHLY, MONTHLY, t) :
        t \in {"start", "end"} }

\* Waypoint lists with equal ages at the lowest, at the highest and at every
\* age, a list that repeats one waypoint, and a list with three waypoints of
\* one age between two others
TiedWaypointsConfigs ==
    { [mode |-> "custom-waypoints", valueType |-> "return",
       waypoints |-> <<W(6, 3), W(0, 10), W(6, 1), W(0, 5)>>,
       equityReturn |-> Undefined, bondReturn |-> Undefined],
      [mode |-> "custom-waypoints", valueType |-> "equityWeight",
       waypoints |-> <<W(3, 40), W(3, 80)>>,
       equityReturn |-> Undefined, bondReturn |-> Pct(2)],
      [mode |-> "custom-waypoints", valueType |-> "return",
       waypoints |-> <<W(5, 4), W(1, 9), W(5, 4)>>,
       equityReturn |-> Undefined, bondReturn |-> Undefined],
      [mode |-> "custom-waypoints", valueType |-> "return",
       waypoints |-> <<W(3, 4), W(0, 9), W(3, 5), W(6, 2), W(3, 6)>>,
       equityReturn |-> Undefined, bondReturn |-> Undefined] }

\* Calls of the resolver at ages inside and outside the simulated span
ProbeMargin == 2
ProbeInputs ==
    { [phase |-> "input", age |-> A(k), config |-> g,
       startAge |-> A(p[1]), endAge |-> A(p[2]),
       returned |-> NoResult, equityWeight |-> Undefined] :
        k \in (0 - ProbeMargin)..(MaxSpanTicks + ProbeMargin),
        g \in WellFormedConfigs \cup MalformedConfigs \cup TiedWaypointsConfigs,
        p \in {<<0, MaxSpanTicks>>, <<1, 6>>} }

\* Calls of getCompoundInterestWithAdditionalContributions: horizons of whole
\* and half years, gains and losses, equal and unequal frequencies
MaxHalfYears == 4
ProjectionArgs(b, c, y, r, cf, pf) ==
    [initialBalance |-> b, additionalContributionAmount |-> c, years |-> y,
     interestRate |-> r, contributionFrequency |-> cf, compoundingFrequency |-> pf]

ProjectionInputs ==
    { ProjectionArgs(b, c, R(h, 2), Pct(r), cf, pf) :
        b \in {0, MaxBalanceDollars * MoneyScale + 5, -(MaxBalanceDollars * MoneyScale)},
        c \in {0, MaxContributionDollars * MoneyScale + 3,
               -(MaxContributionDollars * MoneyScale)},
        h \in {0, 1, 2, MaxHalfYears},
        r \in {0, 6, -6},
        cf \in {YEARLY, MONTHLY, WEEKLY},
        pf \in {YEARLY, 2, MONTHLY} }

\* Calls of getContributionNeededForDesiredBalance, in whole dollars: targets
\* above and below the grown starting balance, negative balances, horizons
\* from no period on, gains and losses of one half per period
MaxSizingYears == 2
SizingArgs(s, d, y, r, cf, pf, i) ==
    [startingBalance |-> s, desiredBalance |-> d, years |-> y, interestRate |-> r,
     contributionFrequency |-> cf, compoundingFrequency |-> pf,
     inflationRate |-> i]

SizingInputs ==
    { SizingArgs(RInt(s), RInt(d), RInt(y), RMul(r, RInt(pf)), cf, pf, i) :
        s \in {0, 6400, 64000, -6400},
        d \in {12500, -12500},
        y \in {0, 1, MaxSizingYears},
        r \in {RZero, R(1, 2), R(-1, 2)},
        cf \in {YEARLY, 2, MONTHLY},
        pf \in {YEARLY, 2},
        i \in {Undefined, RZero} }

NoArgs == [none |-> "args"]
NoProbe == [none |-> "probe"]

\* A call of getCompoundInterestWithGlidepath is about to start
InitSimulation ==
    /\ args \in ValidationInputs \cup SimulationInputs \cup ZeroWeightInputs
                \cup BinadeCrossingInputs
    /\ pc = "start"
    /\ probe = NoProbe

\* A call of the resolver is about to start
InitProbe ==
    /\ args = NoArgs
    /\ pc = "idle"
    /\ probe \in ProbeInputs

\* A call of getCompoundInterestWithAdditionalContributions is about to start
InitProjection ==
    /\ args \in ProjectionInputs
    /\ pc = "project"
    /\ probe = NoProbe

\* A call of getContributionNeededForDesiredBalance is about to start
InitSizing ==
    /\ args \in SizingInputs
    /\ pc = "size"
    /\ probe = NoProbe

-----------------------------------------------------------------------------
(* The ValidationResultBuilder *)

\* A builder object: its two private arrays
Builder == [errors |-> errors, warnings |-> warnings]

addError(b, e) == [b EXCEPT !.errors = Append(@, e)]

addWarning(b, w) == [b EXCEPT !.warnings = Append(@, w)]

addErrors(b, es) == [b EXCEPT !.errors = @ \o es]

addWarnings(b, ws) == [b EXCEPT !.warnings = @ \o ws]

build(b) ==
    [isValid |-> Len(b.errors) = 0, errors |-> b.errors, warnings |-> b.warnings]

\* Variant: clear leaves the warnings in place
clearErrorsOnly(b) == [errors |-> <<>>, warnings |-> b.warnings]

clear(b) == [errors |-> <<>>, warnings |-> <<>>]

getErrorCount(b) == Len(b.errors)

getWarningCount(b) == Len(b.warnings)

\* The validation errors handed to the builder, as the tests create them
AgeError == [code |-> "INVALID_AGE", field |-> "startAge"]
ExtremeReturnWarning == [code |-> "EXTREME_RETURN_WARNING", field |-> "startReturn"]
ValidationItems == {AgeError, ExtremeReturnWarning}

\* The arrays handed to the bulk methods: empty, and two items in either order
ErrorBatches == {<<>>, <<ExtremeReturnWarning, AgeError>>}
WarningBatches == {<<AgeError, ExtremeReturnWarning>>}

\* The longest sequence of calls made on one builder
MaxBuilderCalls == 4

\* The builder after a method has run, with the call added to the record
BuilderBecomes(b, method, items) ==
    /\ pc = "builder"
    /\ Len(calls) < MaxBuilderCalls
    /\ errors' = b.errors
    /\ warnings' = b.warnings
    /\ calls' = Append(calls, [method |-> method, items |-> items])
    /\ UNCHANGED <<args, pc, month, balance, totalContributions,
                   totalInterestEarned, monthlyTimeline, result, error, probe>>
    /\ UNCHANGED ledgerVars

AddError ==
    \E e \in ValidationItems :
        /\ BuilderBecomes(addError(Builder, e), "addError", <<e>>)
        /\ UNCHANGED validationResult

AddWarning ==
    \E w \in ValidationItems :
        /\ BuilderBecomes(addWarning(Builder, w), "addWarning", <<w>>)
        /\ UNCHANGED validationResult

AddErrors ==
    \E es \in ErrorBatches :
        /\ BuilderBecomes(addErrors(Builder, es), "addErrors", es)
        /\ UNCHANGED validationResult

AddWarnings ==
    \E ws \in WarningBatches :
        /\ BuilderBecomes(addWarnings(Builder, ws), "addWarnings", ws)
        /\ UNCHANGED validationResult

Clear ==
    /\ BuilderBecomes(clear(Builder), "clear", <<>>)
    /\ UNCHANGED validationResult

Build ==
    /\ BuilderBecomes(Builder, "build", <<>>)
    /\ validationResult' = build(Builder)

\* A ValidationResultBuilder has just been constructed
InitBuilder ==
    /\ args = NoArgs
    /\ pc = "builder"
    /\ probe = NoProbe

Init ==
    /\ InitSimulation \/ InitProbe \/ InitProjection \/ InitSizing \/ InitBuilder
    /\ month = 0
    /\ balance = 0
    /\ totalContributions = 0
    /\ totalInterestEarned = 0
    /\ monthlyTimeline = <<>>
    /\ period = 0
    /\ compoundingPeriodDetails = <<>>
    /\ yearlyData = <<>>
    /\ result = NoResult
    /\ error = NoError
    /\ errors = <<>>
    /\ warnings = <<>>
    /\ validationResult = NoResult
    /\ calls = <<>>

\* calculateGlidepathReturn and getCurrentEquityWeight applied to one age
Resolve ==
    /\ pc = "idle"
    /\ probe.phase = "input"
    /\ probe' = [probe EXCEPT
                     !.phase = "resolved",
                     !.returned = calculateGlidepathReturn(
                                      probe.age, probe.config,
                                      probe.startAge, probe.endAge),
                     !.equityWeight = getCurrentEquityWeight(
                                          probe.age, probe.config,
                                          probe.startAge, probe.endAge)]
    /\ UNCHANGED simVars
    /\ UNCHANGED ledgerVars
    /\ UNCHANGED builderVars

Next ==
    \/ Validate \/ MonthStep \/ Finish
    \/ Resolve
    \/ StartProjection \/ PeriodStep \/ FinishProjection \/ Aggregate
    \/ SizeContribution
    \/ AddError \/ AddWarning \/ AddErrors \/ AddWarnings \/ Clear \/ Build

Spec == Init /\ [][Next]_vars

-----------------------------------------------------------------------------
(* Properties *)

Simulating == pc \in {"loop", "done"}
Called == pc \in {"loop", "done", "error"}
Resolved == pc = "idle" /\ probe.phase = "resolved"

\* The validation rules as the specification lists them
InvalidInput(a) ==
    \/ a.initialBalance < 0
    \/ a.contributionAmount < 0
    \/ RLe(a.startAge, RZero) \/ RLe(a.endAge, RZero)
    \/ RLe(a.endAge, a.startAge)
    \/ a.contributionFrequency <= 0 \/ a.compoundingFrequency <= 0

\* Balance, cumulative contributions and cumulative interest before month k
PrevBalance(k) ==
    IF k = 1 THEN args.initialBalance ELSE monthlyTimeline[k - 1].currentBalance
PrevContributions(k) ==
    IF k = 1 THEN 0 ELSE monthlyTimeline[k - 1].cumulativeContributions
PrevInterest(k) ==
    IF k = 1 THEN 0 ELSE monthlyTimeline[k - 1].cumulativeInterest
\* The contribution made in month k
ContributionIn(k) ==
    monthlyTimeline[k].cumulativeContributions - PrevContributions(k)

\* clamp((age - startAge) / (endAge - startAge), 0, 1), case by case
ExpectedProgress(age, startAge, endAge) ==
    IF RLe(age, startAge) THEN RZero
    ELSE IF RLe(endAge, age) THEN ROne
    ELSE RDiv(RSub(age, startAge), RSub(endAge, startAge))

Between(x, a, b) == (RLe(a, x) /\ RLe(x, b)) \/ (RLe(b, x) /\ RLe(x, a))

\* The call with the other contribution timing and the same other arguments
OtherTiming(a) ==
    [a EXCEPT !.contributionTiming = IF @ = "start" THEN "end" ELSE "start"]

(* C1: getCompoundInterestWithGlidepath raises, and returns no result, whenever
   initialBalance < 0, contributionAmount < 0, an age is <= 0, startAge >= endAge
   or a frequency is <= 0; with a well-formed config it raises for no other
   input (a zero balance and a zero contribution are accepted). *)
C1_ValidationGate ==
    Called =>
        /\ InvalidInput(args) => pc = "error" /\ result = NoResult
        /\ (~InvalidInput(args) /\ WellFormed(args.glidepathConfig)) =>
               pc # "error" /\ error = NoError
        /\ pc = "done" => result # NoResult

C1_Witness ==
    /\ pc = "error"
    /\ WellFormed(args.glidepathConfig)
    /\ args.initialBalance = 0 /\ args.contributionAmount = 0
    /\ RLt(RZero, args.startAge) /\ RLt(args.startAge, args.endAge)
    /\ args.contributionFrequency > 0 /\ args.compoundingFrequency <= 0

(* C2: with valid inputs and a malformed config (unknown mode, or custom
   waypoints with no waypoint) the call raises at the first resolver call and
   the caller gets no result: no timeline entry is ever recorded. *)
C2_MalformedConfigRaises ==
    (Called /\ ~InvalidInput(args) /\ ~WellFormed(args.glidepathConfig)) =>
        /\ pc # "done"
        /\ result = NoResult
        /\ monthlyTimeline = <<>>
        /\ pc = "loop" => month = 1 /\ month <= TotalMonths(args)
        /\ pc = "error" =>
               error \in {"Unsupported glidepath mode",
                          "Custom waypoints configuration must have at least one waypoint"}

C2_Witness ==
    /\ pc = "error"
    /\ ~InvalidInput(args)
    /\ args.glidepathConfig.mode = "custom-waypoints"
    /\ error = "Custom waypoints configuration must have at least one waypoint"

\* n is the ceiling of the rational x
IsCeiling(n, x) == RLe(x, RInt(n)) /\ RLt(RInt(n - 1), x)

(* C3: totalMonths = ceil((endAge - startAge) * 12), the timeline has exactly
   totalMonths entries, and the k-th entry has month = k and
   age = startAge + (k - 1) / 12, the sum as a double. *)
C3_TimelineShape ==
    Simulating =>
        /\ Len(monthlyTimeline) = month - 1
        /\ \A k \in 1..Len(monthlyTimeline) :
               /\ monthlyTimeline[k].month = k
               /\ monthlyTimeline[k].age =
                      RoundToDouble(RAdd(args.startAge, R(k - 1, MonthsPerYear)))
        /\ pc = "done" =>
               /\ IsCeiling(result.totalMonths,
                            RMul(RSub(args.endAge, args.startAge),
                                 RInt(MonthsPerYear)))
               /\ Len(result.monthlyTimeline) = result.totalMonths
               /\ result.monthlyTimeline = monthlyTimeline

C3_Witness ==
    /\ pc = "done"
    /\ result.totalMonths = 3
    /\ RMul(RSub(args.endAge, args.startAge), RInt(MonthsPerYear)).d # 1
    /\ monthlyTimeline[3].age = RAdd(args.startAge, R(2, MonthsPerYear))

(* C4: with timing 'start' the month's contribution joins the balance before
   interest, so monthlyInterestEarned = (previous balance + contribution) *
   monthlyRate; with 'end' monthlyInterestEarned = previous balance *
   monthlyRate and the contribution is added afterwards.  Nothing else differs:
   the call with the other timing has the same months, ages, rates, equity
   weights and contributions. *)
C4_TimingOrder ==
    Simulating =>
        /\ \A k \in 1..Len(monthlyTimeline) :
               LET e == monthlyTimeline[k]
                   base == IF args.contributionTiming = "start"
                           THEN PrevBalance(k) + ContributionIn(k)
                           ELSE PrevBalance(k)
               IN  /\ e.monthlyInterestEarned = InterestOn(base, e.currentMonthlyReturn)
                   /\ e.currentBalance =
                          PrevBalance(k) + ContributionIn(k) + e.monthlyInterestEarned
        /\ pc = "done" =>
               LET other == getCompoundInterestWithGlidepath(OtherTiming(args))
               IN  /\ ~other.throws
                   /\ other.value.totalMonths = result.totalMonths
                   /\ other.value.totalContributions = result.totalContributions
                   /\ \A k \in 1..Len(monthlyTimeline) :
                          LET e == monthlyTimeline[k]
                              o == other.value.monthlyTimeline[k]
                          IN  /\ o.month = e.month /\ o.age = e.age
                              /\ o.currentAnnualReturn = e.currentAnnualReturn
                              /\ o.currentMonthlyReturn = e.currentMonthlyReturn
                              /\ o.currentEquityWeight = e.currentEquityWeight
                              /\ o.cumulativeContributions = e.cumulativeContributions

C4_Witness ==
    /\ pc = "done"
    /\ args.contributionTiming = "end"
    /\ Len(monthlyTimeline) >= 2
    /\ ContributionIn(2) > 0
    /\ monthlyTimeline[2].monthlyInterestEarned > 0
    /\ monthlyTimeline[2].monthlyInterestEarned
           # InterestOn(PrevBalance(2) + ContributionIn(2),
                        monthlyTimeline[2].currentMonthlyReturn)

\* The case of C5: timing 'start', a positive contribution, no negative rate
C5_Case ==
    /\ pc = "done"
    /\ args.contributionTiming = "start"
    /\ args.contributionAmount > 0
    /\ \A k \in 1..Len(monthlyTimeline) :
           RLe(RZero, monthlyTimeline[k].currentAnnualReturn)

EndTimingFinalBalance ==
    getCompoundInterestWithGlidepath(OtherTiming(args)).value.finalBalance

(* C5 as stated: with contributionAmount > 0 and a non-negative rate, timing
   'start' returns a finalBalance strictly greater than timing 'end'. *)
C5_StartStrictlyGreater ==
    C5_Case => result.finalBalance > EndTimingFinalBalance

(* C5 as amended: with contributionAmount > 0 and a non-negative rate, timing
   'start' returns a finalBalance not less than timing 'end' (they are equal
   when the rate is 0 or no contribution falls in the simulated months). *)
C5_StartNotLess ==
    C5_Case => result.finalBalance >= EndTimingFinalBalance

C5_Witness ==
    /\ C5_Case
    /\ result.totalContributions > 0
    /\ result.totalInterestEarned > 0
    /\ result.finalBalance > EndTimingFinalBalance

(* C6: a contribution of contributionAmount * compoundMultiplier is made
   exactly in the months m with m mod howOftenToCompound = 0 and in no other
   month; the loop advances one literal month per step whatever
   compoundingFrequency is; with both frequencies 12 every month receives
   contributionAmount, so totalContributions = contributionAmount * totalMonths. *)
C6_ContributionSchedule ==
    Simulating =>
        LET cf == args.contributionFrequency
            pf == args.compoundingFrequency
            every == getHowOftenToCompound(cf, pf)
            amount == MulMoney(args.contributionAmount, getCompoundMultiplier(cf, pf))
        IN  /\ \A k \in 1..Len(monthlyTimeline) :
                   /\ ContributionIn(k) = IF k % every = 0 THEN amount ELSE 0
                   /\ k > 1 =>
                          /\ monthlyTimeline[k].month = monthlyTimeline[k - 1].month + 1
                          /\ monthlyTimeline[k].age =
                                 RoundToDouble(RAdd(monthlyTimeline[1].age,
                                                    R(k - 1, MonthsPerYear)))
            /\ (cf = WEEKLY /\ pf = MONTHLY) =>
                   every = 5 /\ amount = (args.contributionAmount * 12) \div 52
            /\ (cf = MONTHLY /\ pf = MONTHLY) =>
                   every = 1 /\ amount = args.contributionAmount
            /\ pc = "done" =>
                   /\ Len(result.monthlyTimeline) =
                          RCeil(RMul(RSub(args.endAge, args.startAge),
                                     RInt(MonthsPerYear)))
                   /\ (cf = MONTHLY /\ pf = MONTHLY) =>
                          result.totalContributions =
                              args.contributionAmount * result.totalMonths

C6_Witness ==
    /\ pc = "done"
    /\ args.contributionFrequency = WEEKLY
    /\ args.compoundingFrequency = MONTHLY
    /\ Len(monthlyTimeline) >= 6
    /\ ContributionIn(5) > 0
    /\ ContributionIn(5) < args.contributionAmount
    /\ ContributionIn(4) = 0 /\ ContributionIn(6) = 0

\* f is b rounded to the nearest cent, a half cent going up
IsNearestCent(f, b) ==
    /\ f % SubCent = 0
    /\ 2 * (f - b) <= SubCent
    /\ 2 * (b - f) < SubCent

(* C7: totalContributions and totalInterestEarned equal the last entry's
   cumulativeContributions and cumulativeInterest; finalBalance is the last
   entry's currentBalance rounded to the nearest cent; the rounding happens
   once after the loop, so every entry's balance is the unrounded previous
   balance plus that month's contribution and interest. *)
C7_TotalsAndRounding ==
    Simulating =>
        /\ \A k \in 1..Len(monthlyTimeline) :
               LET e == monthlyTimeline[k]
               IN  /\ e.currentBalance =
                          PrevBalance(k) + ContributionIn(k) + e.monthlyInterestEarned
                   /\ e.cumulativeInterest = PrevInterest(k) + e.monthlyInterestEarned
        /\ Len(monthlyTimeline) > 0 =>
               monthlyTimeline[Len(monthlyTimeline)].currentBalance = balance
        /\ pc = "done" =>
               LET last == result.monthlyTimeline[Len(result.monthlyTimeline)]
               IN  /\ result.monthlyTimeline = monthlyTimeline
                   /\ result.totalContributions = last.cumulativeContributions
                   /\ result.totalInterestEarned = last.cumulativeInterest
                   /\ IsNearestCent(result.finalBalance, last.currentBalance)

C7_Witness ==
    /\ pc = "done"
    /\ Len(monthlyTimeline) >= 2
    /\ monthlyTimeline[1].currentBalance % SubCent # 0
    /\ result.finalBalance > monthlyTimeline[Len(monthlyTimeline)].currentBalance

(* C8: for a fixed-return config the annual return at any age is
   startReturn + (endReturn - startReturn) * progress with progress =
   clamp((age - startAge) / (endAge - startAge), 0, 1); for every age, also
   outside [startAge, endAge], it lies between startReturn and endReturn, and
   the first timeline entry uses exactly startReturn. *)
C8_FixedReturn ==
    /\ (Resolved /\ probe.config.mode = "fixed-return") =>
           LET c == probe.config
               progress == ExpectedProgress(probe.age, probe.startAge, probe.endAge)
           IN  /\ ~probe.returned.throws
               /\ probe.returned.value =
                      RAdd(c.startReturn,
                           RMul(RSub(c.endReturn, c.startReturn), progress))
               /\ Between(probe.returned.value, c.startReturn, c.endReturn)
    /\ (Simulating /\ args.glidepathConfig.mode = "fixed-return"
           /\ Len(monthlyTimeline) > 0) =>
           monthlyTimeline[1].currentAnnualReturn = args.glidepathConfig.startReturn

C8_Witness ==
    /\ Resolved
    /\ probe.config.mode = "fixed-return"
    /\ probe.config.startReturn # probe.config.endReturn
    /\ RLt(probe.endAge, probe.age)
    /\ probe.returned.value = probe.config.endReturn

\* The stepped return at an age as the specification states it
ExpectedStepped(age, c) ==
    IF RLt(age, c.declineStartAge) THEN c.baseReturn
    ELSE IF RLe(c.terminalAge, age) THEN c.terminalReturn
    ELSE LET declined ==
                 RSub(c.baseReturn, RMul(RSub(age, c.declineStartAge), c.declineRate))
         IN  IF RLt(declined, c.terminalReturn) THEN c.terminalReturn ELSE declined

(* C9: for a stepped-return config the annual return is baseReturn for every
   age < declineStartAge, terminalReturn for every age >= terminalAge, and
   max(baseReturn - (age - declineStartAge) * declineRate, terminalReturn)
   otherwise, whatever the simulation's startAge and endAge are. *)
C9_SteppedReturn ==
    /\ (Resolved /\ probe.config.mode = "stepped-return") =>
           /\ ~probe.returned.throws
           /\ probe.returned.value = ExpectedStepped(probe.age, probe.config)
    /\ (Simulating /\ args.glidepathConfig.mode = "stepped-return") =>
           \A k \in 1..Len(monthlyTimeline) :
               monthlyTimeline[k].currentAnnualReturn =
                   ExpectedStepped(monthlyTimeline[k].age, args.glidepathConfig)

C9_Witness ==
    /\ Resolved
    /\ probe.config.mode = "stepped-return"
    /\ RLe(probe.config.declineStartAge, probe.age)
    /\ RLt(probe.age, probe.config.terminalAge)
    /\ RLt(RSub(probe.config.baseReturn,
                RMul(RSub(probe.age, probe.config.declineStartAge),
                     probe.config.declineRate)),
           probe.config.terminalReturn)
    /\ probe.returned.value = probe.config.terminalReturn

\* The equity weight of an allocation-based config at an age
ExpectedWeight(age, c, startAge, endAge) ==
    RAdd(c.startEquityWeight,
         RMul(RSub(c.endEquityWeight, c.startEquityWeight),
              ExpectedProgress(age, startAge, endAge)))

\* weight * equityReturn + (1 - weight) * bondReturn
ExpectedBlend(w, equityReturn, bondReturn) ==
    RAdd(RMul(w, equityReturn), RMul(RSub(ROne, w), bondReturn))

(* C10: for an allocation-based config the equity weight at an age is
   startEquityWeight + (endEquityWeight - startEquityWeight) * clamp((age -
   startAge) / (endAge - startAge), 0, 1), the annual return is weight *
   equityReturn + (1 - weight) * bondReturn, and the currentEquityWeight of a
   timeline entry is the weight that produced its currentAnnualReturn. *)
C10_AllocationBased ==
    /\ (Resolved /\ probe.config.mode = "allocation-based") =>
           LET c == probe.config
               w == ExpectedWeight(probe.age, c, probe.startAge, probe.endAge)
           IN  /\ probe.equityWeight = w
               /\ ~probe.returned.throws
               /\ probe.returned.value = ExpectedBlend(w, c.equityReturn, c.bondReturn)
    /\ (Simulating /\ args.glidepathConfig.mode = "allocation-based") =>
           \A k \in 1..Len(monthlyTimeline) :
               LET e == monthlyTimeline[k]
                   c == args.glidepathConfig
               IN  /\ e.currentEquityWeight =
                          ExpectedWeight(e.age, c, args.startAge, args.endAge)
                   /\ e.currentAnnualReturn =
                          ExpectedBlend(e.currentEquityWeight, c.equityReturn,
                                        c.bondReturn)

C10_Witness ==
    /\ pc = "done"
    /\ args.glidepathConfig.mode = "allocation-based"
    /\ Len(monthlyTimeline) >= 3
    /\ monthlyTimeline[3].currentEquityWeight # monthlyTimeline[1].currentEquityWeight
    /\ monthlyTimeline[3].currentAnnualReturn # monthlyTimeline[1].currentAnnualReturn

\* The ages of a waypoint list, its lowest and its highest
WaypointAges(ws) == { ws[i].age : i \in DOMAIN ws }
LowestAge(ws) == CHOOSE a \in WaypointAges(ws) : \A b \in WaypointAges(ws) : RLe(a, b)
HighestAge(ws) == CHOOSE a \in WaypointAges(ws) : \A b \in WaypointAges(ws) : RLe(b, a)
\* Among the waypoints of age a, the one the caller lists first, and last
FirstListedAt(ws, a) ==
    ws[CHOOSE i \in DOMAIN ws :
           ws[i].age = a /\ \A j \in DOMAIN ws : ws[j].age = a => i <= j]
LastListedAt(ws, a) ==
    ws[CHOOSE i \in DOMAIN ws :
           ws[i].age = a /\ \A j \in DOMAIN ws : ws[j].age = a => j <= i]
\* The waypoint ages next to an age lying strictly inside the waypoint range
AgeBelow(ws, age) ==
    CHOOSE a \in WaypointAges(ws) :
        RLt(a, age) /\ \A b \in WaypointAges(ws) : RLt(b, age) => RLe(b, a)
AgeAtOrAbove(ws, age) ==
    CHOOSE a \in WaypointAges(ws) :
        RLe(age, a) /\ \A b \in WaypointAges(ws) : RLe(age, b) => RLe(a, b)

\* The piecewise-linear value of the listed (unsorted) waypoints ws at an age
ExpectedInterpolation(age, ws) ==
    IF Len(ws) = 1 THEN ws[1].value
    ELSE IF RLe(age, LowestAge(ws)) THEN FirstListedAt(ws, LowestAge(ws)).value
    ELSE IF RLe(HighestAge(ws), age) THEN LastListedAt(ws, HighestAge(ws)).value
    ELSE LET lower == LastListedAt(ws, AgeBelow(ws, age))
             upper == FirstListedAt(ws, AgeAtOrAbove(ws, age))
         IN  RAdd(lower.value,
                  RMul(RSub(upper.value, lower.value),
                       RDiv(RSub(age, lower.age), RSub(upper.age, lower.age))))

\* A resolver call on a custom-waypoints config with at least one waypoint
ResolvedWaypoints ==
    /\ Resolved
    /\ probe.config.mode = "custom-waypoints"
    /\ Len(probe.config.waypoints) > 0

\* The interpolated waypoint value a resolver call has produced
InterpolatedValue ==
    IF probe.config.valueType = "return" THEN probe.returned.value
    ELSE probe.equityWeight

\* No other listed waypoint has the age of waypoint i
UniqueAge(ws, i) == \A j \in DOMAIN ws : ws[j].age = ws[i].age => j = i

(* C11 as stated: the interpolated value is the single waypoint's value when
   there is one waypoint; otherwise the lowest-age waypoint's value at or before
   its age, the highest-age waypoint's value at or after its age, the linear
   interpolation of the bracketing waypoints in between, and at every
   waypoint's own age that waypoint's value. *)
C11_WaypointValueAtOwnAge ==
    ResolvedWaypoints =>
        LET ws == probe.config.waypoints
        IN  /\ InterpolatedValue = ExpectedInterpolation(probe.age, ws)
            /\ \A i \in DOMAIN ws :
                   ws[i].age = probe.age => InterpolatedValue = ws[i].value

(* C11 as amended: as above, where among waypoints of equal age the first
   listed counts at the lowest age and as the upper end of a bracket and the
   last listed counts at the highest age and as the lower end of a bracket; at
   a waypoint's own age the value is that waypoint's value when no other
   waypoint has the same age. *)
C11_Interpolation ==
    ResolvedWaypoints =>
        LET ws == probe.config.waypoints
        IN  /\ ~probe.returned.throws
            /\ InterpolatedValue = ExpectedInterpolation(probe.age, ws)
            /\ Len(ws) = 1 => InterpolatedValue = ws[1].value
            /\ \A i \in DOMAIN ws :
                   (ws[i].age = probe.age /\ UniqueAge(ws, i)) =>
                       InterpolatedValue = ws[i].value

C11_Witness ==
    /\ ResolvedWaypoints
    /\ Len(probe.config.waypoints) >= 3
    /\ RLt(LowestAge(probe.config.waypoints), probe.age)
    /\ RLt(probe.age, HighestAge(probe.config.waypoints))
    /\ \A i \in DOMAIN probe.config.waypoints :
           /\ probe.config.waypoints[i].age # probe.age
           /\ probe.config.waypoints[i].value # InterpolatedValue
    /\ probe.config.waypoints[1].age = HighestAge(probe.config.waypoints)

\* Every reordering of a sequence
Perms(seq) ==
    { [i \in DOMAIN seq |-> seq[f[i]]] :
        f \in { g \in [DOMAIN seq -> DOMAIN seq] :
                  \A i, j \in DOMAIN seq : g[i] = g[j] => i = j } }

\* The resolver gives the probed call's outputs for every reordering of its
\* waypoint list
SameForEveryOrder ==
    \A ws \in Perms(probe.config.waypoints) :
        LET config == [probe.config EXCEPT !.waypoints = ws]
        IN  /\ calculateGlidepathReturn(probe.age, config, probe.startAge,
                                        probe.endAge) = probe.returned
            /\ getCurrentEquityWeight(probe.age, config, probe.startAge,
                                      probe.endAge) = probe.equityWeight

\* No two listed waypoints have the same age and different values
NoConflictingTies(ws) ==
    \A i, j \in DOMAIN ws : ws[i].age = ws[j].age => ws[i].value = ws[j].value

(* C12 as stated: for a custom-waypoints config, every permutation of the
   waypoint list gives, at every age, the same annual return and the same
   equity weight. *)
C12_AnyOrder ==
    (Resolved /\ probe.config.mode = "custom-waypoints") => SameForEveryOrder

(* C12 as amended: every permutation of the waypoint list gives, at every age,
   the same annual return and the same equity weight, provided no two
   waypoints have the same age and different values. *)
C12_AnyOrderWithoutConflictingTies ==
    (Resolved /\ probe.config.mode = "custom-waypoints"
        /\ NoConflictingTies(probe.config.waypoints)) => SameForEveryOrder

C12_Witness ==
    /\ ResolvedWaypoints
    /\ Len(probe.config.waypoints) = 3
    /\ \E i, j \in DOMAIN probe.config.waypoints :
           i < j /\ RLt(probe.config.waypoints[j].age, probe.config.waypoints[i].age)
    /\ probe.equityWeight # Undefined
    /\ RLt(LowestAge(probe.config.waypoints), probe.age)
    /\ RLt(probe.age, HighestAge(probe.config.waypoints))
    /\ SameForEveryOrder

\* v if the config specifies it, else the stated default
Specified(v, default) == IF v = Undefined THEN default ELSE v

(* C13: for a custom-waypoints config with valueType 'return' the interpolated
   waypoint value is the annual return itself; with valueType 'equityWeight'
   the interpolated value w is the equity weight and the annual return is
   w * equityReturn + (1 - w) * bondReturn, with equityReturn 0.10 and
   bondReturn 0.04 when the config does not specify them. *)
C13_ValueType ==
    /\ ResolvedWaypoints =>
           LET c == probe.config
               w == ExpectedInterpolation(probe.age, c.waypoints)
           IN  /\ ~probe.returned.throws
               /\ c.valueType = "return" => probe.returned.value = w
               /\ c.valueType = "equityWeight" =>
                      /\ probe.equityWeight = w
                      /\ probe.returned.value =
                             ExpectedBlend(w, Specified(c.equityReturn, R(10, 100)),
                                           Specified(c.bondReturn, R(4, 100)))
    /\ (Simulating /\ args.glidepathConfig.mode = "custom-waypoints") =>
           \A k \in 1..Len(monthlyTimeline) :
               LET e == monthlyTimeline[k]
                   c == args.glidepathConfig
                   w == ExpectedInterpolation(e.age, c.waypoints)
               IN  e.currentAnnualReturn =
                       IF c.valueType = "return" THEN w
                       ELSE ExpectedBlend(w, Specified(c.equityReturn, R(10, 100)),
                                          Specified(c.bondReturn, R(4, 100)))

C13_Witness ==
    /\ ResolvedWaypoints
    /\ probe.config.valueType = "equityWeight"
    /\ probe.config.equityReturn = Undefined
    /\ probe.config.bondReturn # Undefined
    /\ probe.equityWeight = Pct(80)
    /\ probe.returned.value = RAdd(RMul(Pct(80), Pct(10)), RMul(Pct(20), Pct(2)))

\* The modes for which the resolver yields an equity weight
AllocationDriven(config) ==
    \/ config.mode = "allocation-based"
    \/ config.mode = "custom-waypoints" /\ config.valueType = "equityWeight"

\* v is a number, as opposed to undefined
IsNumber(v) == DOMAIN v = {"n", "d"} /\ v.d > 0

(* C14: in every timeline entry currentEquityWeight is a number exactly when
   the config is allocation-based or custom-waypoints with valueType
   'equityWeight', and is undefined, which differs from the number 0, for
   fixed-return, stepped-return and custom-waypoints with valueType 'return';
   all entries of one simulation agree on its presence. *)
C14_EquityWeightPresence ==
    Simulating =>
        /\ \A k \in 1..Len(monthlyTimeline) :
               LET w == monthlyTimeline[k].currentEquityWeight
               IN  IF AllocationDriven(args.glidepathConfig)
                   THEN IsNumber(w) /\ w # Undefined
                   ELSE w = Undefined /\ w # RZero
        /\ \A j, k \in 1..Len(monthlyTimeline) :
               (monthlyTimeline[j].currentEquityWeight = Undefined)
                   <=> (monthlyTimeline[k].currentEquityWeight = Undefined)

C14_Witness ==
    /\ pc = "done"
    /\ args.glidepathConfig.mode = "custom-waypoints"
    /\ Len(monthlyTimeline) >= 2
    /\ monthlyTimeline[1].currentEquityWeight = RZero
    /\ monthlyTimeline[1].currentEquityWeight # Undefined
    /\ IsNumber(monthlyTimeline[2].currentEquityWeight)
    /\ RLt(RZero, monthlyTimeline[2].currentEquityWeight)

Projecting == pc \in {"periods", "projected"}

\* Balance, contribution total and interest total before period k
PrevRowBalance(k) ==
    IF k = 1 THEN args.initialBalance ELSE compoundingPeriodDetails[k - 1].balance
PrevRowContributions(k) ==
    IF k = 1 THEN 0 ELSE compoundingPeriodDetails[k - 1].contributionTotal
PrevRowInterest(k) ==
    IF k = 1 THEN 0 ELSE compoundingPeriodDetails[k - 1].interestTotal
\* The contribution made in period k
ContributionInPeriod(k) ==
    compoundingPeriodDetails[k].contributionTotal - PrevRowContributions(k)

\* N = years * compoundingFrequency of the call in progress
PeriodCount == RMul(args.years, RInt(args.compoundingFrequency))

(* C15: getCompoundInterestWithAdditionalContributions records one row for
   each period p = 1, 2, ... up to N = years * compoundingFrequency, in order
   (N rows when N is a whole number); in a period with p mod howOftenToCompound
   = 0 the amount contribution * compoundMultiplier is first added to the
   balance and to the contribution total, and in every period interest of
   (updated balance) * (annualRate / compoundingFrequency) is then added to the
   balance and to the interest total before the row is recorded. *)
C15_LedgerRows ==
    Projecting =>
        LET cf == args.contributionFrequency
            pf == args.compoundingFrequency
            every == getHowOftenToCompound(cf, pf)
            amount == MulMoney(args.additionalContributionAmount,
                               getCompoundMultiplier(cf, pf))
            rate == RDiv(args.interestRate, RInt(pf))
        IN  /\ Len(compoundingPeriodDetails) = period - 1
            /\ \A k \in 1..Len(compoundingPeriodDetails) :
                   LET row == compoundingPeriodDetails[k]
                   IN  /\ row.period = k
                       /\ RLe(RInt(k), PeriodCount)
                       /\ ContributionInPeriod(k) =
                              IF k % every = 0 THEN amount ELSE 0
                       /\ row.interestEarnedThisPeriod =
                              MulMoney(PrevRowBalance(k) + ContributionInPeriod(k),
                                       rate)
                       /\ row.balance = PrevRowBalance(k) + ContributionInPeriod(k)
                                            + row.interestEarnedThisPeriod
                       /\ row.interestTotal =
                              PrevRowInterest(k) + row.interestEarnedThisPeriod
            /\ pc = "projected" =>
                   /\ result.compoundingPeriodDetails = compoundingPeriodDetails
                   /\ RLt(PeriodCount, RInt(Len(compoundingPeriodDetails) + 1))
                   /\ PeriodCount.d = 1 =>
                          Len(compoundingPeriodDetails) = PeriodCount.n

C15_Witness ==
    /\ pc = "projected"
    /\ args.contributionFrequency = WEEKLY
    /\ args.compoundingFrequency = MONTHLY
    /\ Len(compoundingPeriodDetails) = 2 * MONTHLY
    /\ ContributionInPeriod(4) = 0
    /\ ContributionInPeriod(5) > 0
    /\ ContributionInPeriod(5) < args.additionalContributionAmount
    /\ compoundingPeriodDetails[5].interestEarnedThisPeriod
           > MulMoney(PrevRowBalance(5),
                      RDiv(args.interestRate, RInt(args.compoundingFrequency)))

\* The case of C16: a finished projection at a zero annual rate
C16_Case == pc = "projected" /\ args.interestRate = RZero

(* C16 as stated: with annualRate = 0 the projection yields
   totalInterestEarned = 0, balance = initialBalance + totalContributions, and
   totalContributions = contributionAmount * contributionFrequency * years. *)
C16_ZeroRateTotals ==
    C16_Case =>
        /\ result.totalInterestEarned = 0
        /\ result.balance = args.initialBalance + result.totalContributions
        /\ RInt(result.totalContributions) =
               RMul(RInt(args.additionalContributionAmount
                             * args.contributionFrequency),
                    args.years)

(* C16 as amended: with annualRate = 0 the projection yields
   totalInterestEarned = 0 and balance = initialBalance + totalContributions,
   with totalContributions = contributionAmount * compoundMultiplier * (the
   number of periods p <= years * compoundingFrequency with p mod
   howOftenToCompound = 0); this is contributionAmount * contributionFrequency
   * years when the two frequencies are equal and years * compoundingFrequency
   is a whole number. *)
C16_ZeroRateTotalsByPeriods ==
    C16_Case =>
        LET cf == args.contributionFrequency
            pf == args.compoundingFrequency
            amount == MulMoney(args.additionalContributionAmount,
                               getCompoundMultiplier(cf, pf))
            contributing ==
                { p \in 1..RFloor(PeriodCount) : p % getHowOftenToCompound(cf, pf) = 0 }
        IN  /\ result.totalInterestEarned = 0
            /\ result.balance = args.initialBalance + result.totalContributions
            /\ result.totalContributions = amount * Cardinality(contributing)
            /\ (cf = pf /\ PeriodCount.d = 1) =>
                   RInt(result.totalContributions) =
                       RMul(RInt(args.additionalContributionAmount * cf), args.years)

C16_Witness ==
    /\ C16_Case
    /\ args.contributionFrequency = MONTHLY
    /\ args.compoundingFrequency = MONTHLY
    /\ args.years = R(1, 2)
    /\ args.initialBalance > 0
    /\ args.additionalContributionAmount > 0
    /\ result.totalContributions = 6 * args.additionalContributionAmount
    /\ result.balance = args.initialBalance + 6 * args.additionalContributionAmount

\* effectiveAnnualReturn as the specification states it
ExpectedEffectiveReturn(initialBalance, bal, tc, ti, years) ==
    IF ti = 0 THEN RZero
    ELSE IF initialBalance = 0
    THEN IF tc > 0 THEN AnnualizedGrowth(R(bal, tc), years) ELSE RZero
    ELSE AnnualizedGrowth(R(bal, initialBalance), years)

\* v is the number 0, or a growth (base)^(1/years) - 1 whose base is a quotient
\* with a non-zero denominator and whose years are not 0
NoZeroDenominator(v) ==
    v # RZero => DOMAIN v = {"base", "years"} /\ v.base.d # 0 /\ v.years.n # 0

(* C17: in both engines effectiveAnnualReturn is 0 whenever the total interest
   earned is 0; otherwise, when initialBalance is 0, it is (balance /
   totalContributions)^(1/years) - 1 if totalContributions > 0 and 0 if not;
   otherwise it is (balance / initialBalance)^(1/years) - 1.  No quotient in it
   has a zero denominator (years = endAge - startAge in the glidepath
   engine). *)
C17_EffectiveAnnualReturn ==
    /\ pc = "projected" =>
           /\ result.effectiveAnnualReturn =
                  ExpectedEffectiveReturn(args.initialBalance, result.balance,
                                          result.totalContributions,
                                          result.totalInterestEarned, args.years)
           /\ NoZeroDenominator(result.effectiveAnnualReturn)
    /\ pc = "done" =>
           /\ result.effectiveAnnualReturn =
                  ExpectedEffectiveReturn(
                      args.initialBalance,
                      monthlyTimeline[Len(monthlyTimeline)].currentBalance,
                      result.totalContributions, result.totalInterestEarned,
                      RSub(args.endAge, args.startAge))
           /\ NoZeroDenominator(result.effectiveAnnualReturn)

C17_Witness ==
    /\ pc = "projected"
    /\ args.initialBalance = 0
    /\ result.totalInterestEarned > 0
    /\ result.totalContributions > 0
    /\ result.effectiveAnnualReturn =
           AnnualizedGrowth(R(result.balance, result.totalContributions), args.years)
    /\ result.effectiveAnnualReturn.base.d # 0

\* averageAnnualInterestRate as the specification states it
ExpectedAverageRate(initialBalance, tc, ti, years) ==
    IF initialBalance + tc > 0 /\ ti > 0
    THEN R(ti * years.d, years.n * (initialBalance + tc))
    ELSE RZero

(* C18: in both engines averageAnnualInterestRate is totalInterestEarned /
   years / (initialBalance + totalContributions) when the invested principal
   (initialBalance + totalContributions) and the total interest are both
   strictly positive, and 0 in every other case; it is never negative, also
   when the account lost money. *)
C18_AverageAnnualInterestRate ==
    /\ pc = "projected" =>
           /\ result.averageAnnualInterestRate =
                  ExpectedAverageRate(args.initialBalance, result.totalContributions,
                                      result.totalInterestEarned, args.years)
           /\ RLe(RZero, result.averageAnnualInterestRate)
    /\ pc = "done" =>
           /\ result.averageAnnualInterestRate =
                  ExpectedAverageRate(args.initialBalance, result.totalContributions,
                                      result.totalInterestEarned,
                                      RSub(args.endAge, args.startAge))
           /\ RLe(RZero, result.averageAnnualInterestRate)

C18_Witness ==
    /\ pc = "done"
    /\ args.initialBalance + result.totalContributions > 0
    /\ result.totalInterestEarned < 0
    /\ result.finalBalance < args.initialBalance + result.totalContributions
    /\ result.averageAnnualInterestRate = RZero

\* Of the sizing call in progress: the rate per period, the period count N and
\* the starting balance grown over the horizon
SizingRate == RDiv(args.interestRate, RInt(args.compoundingFrequency))
SizingPeriods == RMul(args.years, RInt(args.compoundingFrequency))
GrownStartingBalance ==
    RMul(args.startingBalance, RPow(RAdd(ROne, SizingRate), SizingPeriods))

(* C19: getContributionNeededForDesiredBalance never returns a negative
   contribution: whenever the target minus the starting balance grown over the
   horizon is negative, contributionNeededPerPeriod is exactly 0, likewise
   contributionNeededPerPeriodWithInflation for the inflated target, and a
   result is returned. *)
C19_ClampToZero ==
    pc = "sized" =>
        /\ result # NoResult
        /\ ~RLt(result.contributionNeededPerPeriod, RZero)
        /\ ~RLt(result.contributionNeededPerPeriodWithInflation, RZero)
        /\ RLt(RSub(args.desiredBalance, GrownStartingBalance), RZero) =>
               result.contributionNeededPerPeriod = RZero
        /\ RLt(RSub(result.desiredBalanceWithInflation, GrownStartingBalance),
               RZero) =>
               result.contributionNeededPerPeriodWithInflation = RZero

\* x^1 + x^2 + ... + x^k
RECURSIVE SumOfPowers(_, _)
SumOfPowers(x, k) ==
    IF k = 0 THEN RZero ELSE RAdd(SumOfPowers(x, k - 1), PowR(x, k))

\* Two finite doubles are the same number (the two zeros are)
SameNumber(a, b) == a.d # 0 /\ b.d # 0 /\ a.n * b.d = b.n * a.d

\* The multiplier of the sizing call in progress, and what C20 says of it
SizingMultiplier ==
    getAdditionalContributionsTotalInterestMultiplier(SizingRate, SizingPeriods)
MultiplierIsGeometricSum ==
    /\ SizingMultiplier.d # 0
    /\ SameNumber(SizingMultiplier,
                  SumOfPowers(RAdd(ROne, SizingRate), SizingPeriods.n))
    /\ SizingRate = RZero => SizingMultiplier = SizingPeriods

\* The case of the last part of C20: zero rate and equal frequencies
C20_ZeroRateCase ==
    /\ pc = "sized"
    /\ SizingRate = RZero
    /\ args.contributionFrequency = args.compoundingFrequency

(* C20 as stated: the multiplier is the sum of (1 + r)^i for i = 1..N, computed
   without dividing by zero, and is N when r = 0; at zero rate with equal
   frequencies the required contribution is (desiredBalance -
   startingBalance) / N. *)
C20_ZeroRateContribution ==
    pc = "sized" =>
        /\ MultiplierIsGeometricSum
        /\ C20_ZeroRateCase =>
               result.contributionNeededPerPeriod =
                   Divide(RSub(args.desiredBalance, args.startingBalance),
                          SizingPeriods)

(* C20 as amended: the multiplier is the sum of (1 + r)^i for i = 1..N,
   computed without dividing by zero, and is N when r = 0; at zero rate with
   equal frequencies the required contribution is (desiredBalance -
   startingBalance) / N when desiredBalance is not below startingBalance, and 0
   when it is. *)
C20_GeometricSeries ==
    pc = "sized" =>
        /\ MultiplierIsGeometricSum
        /\ C20_ZeroRateCase =>
               result.contributionNeededPerPeriod =
                   IF RLt(args.desiredBalance, args.startingBalance) THEN RZero
                   ELSE Divide(RSub(args.desiredBalance, args.startingBalance),
                               SizingPeriods)

C20_Witness ==
    /\ pc = "sized"
    /\ SizingRate = R(1, 2)
    /\ SizingPeriods = RInt(4)
    /\ SizingMultiplier = R(195, 16)
    /\ RLt(RZero, result.contributionNeededPerPeriod)
    /\ result.contributionNeededPerPeriod.d > 0

\* A dollar amount on the money grid, rounded down
ToMoney(x) == (x.n * MoneyScale) \div x.d

\* The sizing call has returned a finite contribution
SizedFinite == pc = "sized" /\ result.contributionNeededPerPeriod.d > 0

\* The projection fed with the sized contribution and the sizing call's other
\* arguments, and the balance it reaches
RoundTripArgs ==
    ProjectionArgs(ToMoney(args.startingBalance),
                   ToMoney(result.contributionNeededPerPeriod),
                   args.years, args.interestRate,
                   args.contributionFrequency, args.compoundingFrequency)
RoundTripBalance ==
    getCompoundInterestWithAdditionalContributions(RoundTripArgs).balance

\* 1 + g + ... + g^k
RECURSIVE SumFromZero(_, _)
SumFromZero(g, k) == IF k = 0 THEN ROne ELSE RAdd(SumFromZero(g, k - 1), PowR(g, k))

\* What rounding each contribution and each period's interest to the money
\* grid can add up to over the horizon: two grid steps per period, each grown
\* over the periods left
RoundingTolerance ==
    RMul(RInt(2), SumFromZero(RMax(ROne, RAdd(ROne, SizingRate)),
                              RFloor(SizingPeriods)))

\* (both sides of the difference are whole grid steps)
ReachesDesiredBalance ==
    Abs(RoundTripBalance - ToMoney(args.desiredBalance)) <= RFloor(RoundingTolerance)

(* C21 as stated: feeding contributionNeededPerPeriod back into
   getCompoundInterestWithAdditionalContributions with the same starting
   balance, years, rate and frequencies reaches a balance within rounding
   tolerance of desiredBalance. *)
C21_RoundTrip == SizedFinite => ReachesDesiredBalance

\* The case in which the sized contribution is the solution of the series
\* equation: equal frequencies, at least one period, a target not below the
\* grown starting balance
C21_Case ==
    /\ SizedFinite
    /\ args.contributionFrequency = args.compoundingFrequency
    /\ RLe(ROne, SizingPeriods) /\ SizingPeriods.d = 1
    /\ RLe(GrownStartingBalance, args.desiredBalance)

(* C21 as amended: the round trip reaches desiredBalance within rounding
   tolerance when the contribution and compounding frequencies are equal, there
   is a whole number of at least one period, and desiredBalance is not below the
   starting balance grown over the horizon. *)
C21_RoundTripEqualFrequencies == C21_Case => ReachesDesiredBalance

C21_Witness ==
    /\ C21_Case
    /\ SizingRate = R(-1, 2)
    /\ SizingPeriods = RInt(4)
    /\ args.startingBalance = RInt(6400)
    /\ RLt(RZero, result.contributionNeededPerPeriod)
    /\ result.contributionNeededPerPeriod.d > 1
    /\ RoundTripBalance > ToMoney(GrownStartingBalance)
    /\ ReachesDesiredBalance

(* C22: aggregateDataByYear returns one row for each year 1, 2, ... up to
   years, in order; for a ledger produced by
   getCompoundInterestWithAdditionalContributions, row y's
   cumulativeContributions, cumulativeInterest and endOfYearBalance are the
   contributionTotal, interestTotal and balance of period y *
   compoundingFrequency: totals since the start, not amounts of the year. *)
C22_YearlyRows ==
    pc = "aggregated" =>
        /\ error = NoError
        /\ RLe(RInt(Len(yearlyData)), args.years)
        /\ RLt(args.years, RInt(Len(yearlyData) + 1))
        /\ \A y \in 1..Len(yearlyData) :
               LET row == yearlyData[y]
                   last == compoundingPeriodDetails[y * args.compoundingFrequency]
               IN  /\ row.year = y
                   /\ last.period = y * args.compoundingFrequency
                   /\ row.cumulativeContributions = last.contributionTotal
                   /\ row.cumulativeInterest = last.interestTotal
                   /\ row.endOfYearBalance = last.balance

C22_Witness ==
    /\ pc = "aggregated"
    /\ args.compoundingFrequency = MONTHLY
    /\ Len(yearlyData) = 2
    /\ yearlyData[1].cumulativeContributions > 0
    /\ yearlyData[2].cumulativeContributions
           = 2 * yearlyData[1].cumulativeContributions
    /\ yearlyData[1].cumulativeInterest > 0
    /\ yearlyData[2].cumulativeInterest > 2 * yearlyData[1].cumulativeInterest
    /\ yearlyData[2].endOfYearBalance = result.balance

\* The stepped return v resolved at an age is not below the config's floor
AtOrAboveTerminal(v, c) == RLe(c.terminalReturn, v)
\* The ages and configs for which C23 as amended promises the floor
FloorApplies(age, c) ==
    RLe(c.declineStartAge, age) \/ RLe(c.terminalReturn, c.baseReturn)

(* C23 as stated: for a stepped-return config the value resolved at every age
   is >= terminalReturn, so every timeline entry of a stepped-return simulation
   has currentAnnualReturn >= terminalReturn. *)
C23_NeverBelowTerminal ==
    /\ (Resolved /\ probe.config.mode = "stepped-return") =>
           AtOrAboveTerminal(probe.returned.value, probe.config)
    /\ (Simulating /\ args.glidepathConfig.mode = "stepped-return") =>
           \A k \in 1..Len(monthlyTimeline) :
               AtOrAboveTerminal(monthlyTimeline[k].currentAnnualReturn,
                                 args.glidepathConfig)

(* C23 as amended: for a stepped-return config the value resolved at every age
   at or after declineStartAge is >= terminalReturn; at an age before
   declineStartAge it is baseReturn, whatever terminalReturn is, so the value
   is >= terminalReturn at every age when baseReturn >= terminalReturn.  The
   same holds of every timeline entry's currentAnnualReturn. *)
C23_TerminalFloor ==
    /\ (Resolved /\ probe.config.mode = "stepped-return") =>
           /\ FloorApplies(probe.age, probe.config) =>
                  AtOrAboveTerminal(probe.returned.value, probe.config)
           /\ RLt(probe.age, probe.config.declineStartAge) =>
                  probe.returned.value = probe.config.baseReturn
    /\ (Simulating /\ args.glidepathConfig.mode = "stepped-return") =>
           \A k \in 1..Len(monthlyTimeline) :
               LET e == monthlyTimeline[k]
                   c == args.glidepathConfig
               IN  /\ FloorApplies(e.age, c) =>
                          AtOrAboveTerminal(e.currentAnnualReturn, c)
                   /\ RLt(e.age, c.declineStartAge) =>
                          e.currentAnnualReturn = c.baseReturn

C23_Witness ==
    /\ pc = "done"
    /\ args.glidepathConfig.mode = "stepped-return"
    /\ RLt(args.glidepathConfig.terminalReturn, args.glidepathConfig.baseReturn)
    /\ Len(monthlyTimeline) >= 4
    /\ monthlyTimeline[1].currentAnnualReturn = args.glidepathConfig.baseReturn
    /\ monthlyTimeline[4].currentAnnualReturn = args.glidepathConfig.terminalReturn
    /\ RLt(monthlyTimeline[4].age, args.glidepathConfig.terminalAge)
    /\ RLt(RSub(args.glidepathConfig.baseReturn,
                RMul(RSub(monthlyTimeline[4].age,
                          args.glidepathConfig.declineStartAge),
                     args.glidepathConfig.declineRate)),
           args.glidepathConfig.terminalReturn)

(* C24: in every row recorded by
   getCompoundInterestWithAdditionalContributions, balanceFromContributions is
   the cumulative contributions, balanceFromInterest is the accumulated
   interest (equal to interestTotal), and the two add up to the balance. *)
C24_BalanceDecomposition ==
    Projecting =>
        \A k \in 1..Len(compoundingPeriodDetails) :
            LET row == compoundingPeriodDetails[k]
            IN  /\ row.balanceFromContributions = row.contributionTotal
                /\ row.balanceFromInterest = row.interestTotal
                /\ row.balanceFromContributions + row.balanceFromInterest
                       = row.balance

\* The validation rules in their fixed order, each with its message
ValidationRules(a) ==
    << [fails |-> a.initialBalance < 0,
        message |-> "Initial balance must be non-negative"],
       [fails |-> a.contributionAmount < 0,
        message |-> "Contribution amount must be non-negative"],
       [fails |-> RLe(a.startAge, RZero) \/ RLe(a.endAge, RZero),
        message |-> "Ages must be positive"],
       [fails |-> RLe(a.endAge, a.startAge),
        message |-> "Start age must be less than end age"],
       [fails |-> a.contributionFrequency <= 0 \/ a.compoundingFrequency <= 0,
        message |-> "Frequencies must be positive"] >>

\* The number of rules an input violates
ViolatedRules(a) ==
    Cardinality({ i \in DOMAIN ValidationRules(a) : ValidationRules(a)[i].fails })

(* C25: when an input of getCompoundInterestWithGlidepath violates several
   validation rules, the error raised is that of the first failing rule in the
   order balance, contribution, age signs, age order, frequencies, and it is
   raised before the config is looked at: a malformed config does not change
   the error, and no month is simulated. *)
C25_FirstFailingCheck ==
    (Called /\ InvalidInput(args)) =>
        /\ pc = "error"
        /\ month = 0 /\ monthlyTimeline = <<>>
        /\ \A i \in DOMAIN ValidationRules(args) :
               (/\ ValidationRules(args)[i].fails
                /\ \A j \in 1..(i - 1) : ~ValidationRules(args)[j].fails)
                   => error = ValidationRules(args)[i].message
        /\ error \notin {"Unsupported glidepath mode",
                          "Custom waypoints configuration must have at least one waypoint"}

C25_Witness ==
    /\ pc = "error"
    /\ ~WellFormed(args.glidepathConfig)
    /\ args.initialBalance >= 0 /\ args.contributionAmount >= 0
    /\ RLt(RZero, args.startAge) /\ args.endAge = RZero
    /\ RLe(args.endAge, args.startAge)
    /\ args.contributionFrequency <= 0
    /\ ViolatedRules(args) = 3
    /\ error = "Ages must be positive"

(* C26: for every input that passes validation totalMonths >= 1, so the loop
   runs at least once: the first resolver call is always made (with a malformed
   config the call raises and never returns a result with an empty timeline),
   and averageMonthlyReturn is a mean over at least one entry, never a division
   by a timeline length of zero. *)
C26_AtLeastOneMonth ==
    Simulating =>
        /\ TotalMonths(args) >= 1
        /\ month = 1 => pc = "loop" /\ month <= TotalMonths(args)
        /\ ~WellFormed(args.glidepathConfig) => pc = "loop" /\ month = 1
        /\ pc = "done" =>
               /\ Len(result.monthlyTimeline) >= 1
               /\ result.averageMonthlyReturn # NaN
               /\ result.averageMonthlyReturn =
                      R(SumMonthlyReturn(result.monthlyTimeline),
                        RateScale * Len(result.monthlyTimeline))

C26_Witness ==
    /\ pc = "done"
    /\ RLt(RMul(RSub(args.endAge, args.startAge), RInt(MonthsPerYear)), ROne)
    /\ result.totalMonths = 1
    /\ Len(result.monthlyTimeline) = 1
    /\ RLt(RZero, result.averageMonthlyReturn)
    /\ result.averageMonthlyReturn
           = R(result.monthlyTimeline[1].currentMonthlyReturn, RateScale)

\* The waypoint list interpolateWaypoints receives in a resolver call, and the
\* first pair the scan finds for the probed age (0 if it finds none)
SortedWaypoints == SortByAge(probe.config.waypoints)
FoundBracket == FindBracket(probe.age, SortedWaypoints, 1)

\* A resolver call whose age lies strictly between the first and the last age
\* of the sorted list, so that the scan runs
ScanRuns ==
    /\ ResolvedWaypoints
    /\ Len(SortedWaypoints) >= 2
    /\ RLt(SortedWaypoints[1].age, probe.age)
    /\ RLt(probe.age, SortedWaypoints[Len(SortedWaypoints)].age)

(* C27: for a waypoint list sorted by age, duplicate ages included, and an age
   strictly between the first and the last waypoint age, the scan of
   interpolateWaypoints finds a bracketing pair, the first pair it finds has
   two different ages, so the interpolation does not divide by zero, and the
   fallback return after the scan is not reached. *)
C27_ScanFindsProperBracket ==
    ScanRuns =>
        LET lower == SortedWaypoints[FoundBracket]
            upper == SortedWaypoints[FoundBracket + 1]
        IN  /\ FoundBracket \in 1..(Len(SortedWaypoints) - 1)
            /\ RLt(lower.age, upper.age)
            /\ RLe(lower.age, probe.age) /\ RLe(probe.age, upper.age)
            /\ ~probe.returned.throws
            /\ InterpolatedValue # NaN
            /\ InterpolatedValue =
                   RAdd(lower.value,
                        RMul(RSub(upper.value, lower.value),
                             RDiv(RSub(probe.age, lower.age),
                                  RSub(upper.age, lower.age))))

C27_Witness ==
    /\ ScanRuns
    /\ Len(SortedWaypoints) = 5
    /\ \E i \in 2..3 :
           /\ SortedWaypoints[i].age = probe.age
           /\ SortedWaypoints[i + 1].age = probe.age
           /\ SortedWaypoints[i].value # SortedWaypoints[i + 1].value
    /\ FoundBracket = 1
    /\ InterpolatedValue = SortedWaypoints[2].value


\* ---------------------------------------------------------------------------
\* C29  The accounting identity of both loops
\* ---------------------------------------------------------------------------

\* Row k of the glidepath timeline: the balance is the initial balance plus
\* the two running totals, and the interest total grew by the row's interest
TimelineRowBalances(k) ==
    LET e == monthlyTimeline[k]
        previousInterest ==
            IF k = 1 THEN 0 ELSE monthlyTimeline[k - 1].cumulativeInterest
    IN  /\ e.currentBalance =
               args.initialBalance + e.cumulativeContributions + e.cumulativeInterest
        /\ e.cumulativeInterest = previousInterest + e.monthlyInterestEarned

\* Row k of the fixed-rate ledger, likewise
LedgerRowBalances(k) ==
    LET d == compoundingPeriodDetails[k]
        previousInterest ==
            IF k = 1 THEN 0 ELSE compoundingPeriodDetails[k - 1].interestTotal
    IN  /\ d.balance = args.initialBalance + d.contributionTotal + d.interestTotal
        /\ d.interestTotal = previousInterest + d.interestEarnedThisPeriod

TimelineContributionsNeverDecrease ==
    \A k \in 2..Len(monthlyTimeline) :
        monthlyTimeline[k].cumulativeContributions >=
            monthlyTimeline[k - 1].cumulativeContributions

LedgerContributionsNeverDecrease ==
    \A k \in 2..Len(compoundingPeriodDetails) :
        compoundingPeriodDetails[k].contributionTotal >=
            compoundingPeriodDetails[k - 1].contributionTotal

RowsBalance ==
    /\ \A k \in 1..Len(monthlyTimeline) : TimelineRowBalances(k)
    /\ \A k \in 1..Len(compoundingPeriodDetails) : LedgerRowBalances(k)

\* C29 as stated: in every recorded row of both loops the balance is the
\* initial balance plus cumulative contributions plus cumulative interest,
\* the interest total is the previous row's plus the row's own interest, and
\* cumulative contributions never decrease from one row to the next.
C29_AccountingIdentity ==
    /\ RowsBalance
    /\ TimelineContributionsNeverDecrease
    /\ LedgerContributionsNeverDecrease

\* C29: in every recorded row of both loops the balance is the initial
\* balance plus cumulative contributions plus cumulative interest and the
\* interest total is the previous row's plus the row's own interest;
\* cumulative contributions never decrease in the glidepath timeline, and in
\* the fixed-rate ledger they never decrease when the contribution amount is
\* not negative.
C29_IdentityAndGuardedMonotonicity ==
    /\ RowsBalance
    /\ TimelineContributionsNeverDecrease
    /\ (Len(compoundingPeriodDetails) > 0 /\ args.additionalContributionAmount >= 0)
           => LedgerContributionsNeverDecrease

\* A finished ledger of a positive contribution amount whose rows show the
\* contribution total rising and interest, gained or lost, being added
C29_Witness ==
    /\ pc = "projected"
    /\ Len(compoundingPeriodDetails) >= 2
    /\ args.additionalContributionAmount > 0
    /\ compoundingPeriodDetails[2].contributionTotal >
           compoundingPeriodDetails[1].contributionTotal
    /\ compoundingPeriodDetails[2].interestEarnedThisPeriod # 0
    /\ compoundingPeriodDetails[2].interestTotal #
           compoundingPeriodDetails[2].interestEarnedThisPeriod


\* ---------------------------------------------------------------------------
\* C30  The ValidationResultBuilder counts and lists what was added
\* ---------------------------------------------------------------------------

\* The index of the last clear among the calls, 0 when there is none
LastClear ==
    LET clears == {i \in 1..Len(calls) : calls[i].method = "clear"}
    IN  IF clears = {} THEN 0 ELSE CHOOSE i \in clears : \A j \in clears : j <= i

\* The items the calls from index i on handed to the given methods, in order
RECURSIVE ItemsAdded(_, _)
ItemsAdded(i, methods) ==
    IF i > Len(calls) THEN <<>>
    ELSE (IF calls[i].method \in methods THEN calls[i].items ELSE <<>>)
             \o ItemsAdded(i + 1, methods)

ErrorsSinceClear == ItemsAdded(LastClear + 1, {"addError", "addErrors"})
WarningsSinceClear == ItemsAdded(LastClear + 1, {"addWarning", "addWarnings"})

JustBuilt == Len(calls) > 0 /\ calls[Len(calls)].method = "build"
JustCleared == Len(calls) > 0 /\ calls[Len(calls)].method = "clear"

\* C30: after any sequence of addError, addErrors, addWarning, addWarnings
\* and clear calls, getErrorCount and getWarningCount are the numbers of
\* errors and warnings added since the last clear, both 0 right after a
\* clear; build() returns isValid = true exactly when that error count is 0,
\* with errors and warnings listing those items in insertion order, so that
\* warnings never make a result invalid.
C30_BuilderCountsAndLists ==
    pc = "builder" =>
        /\ getErrorCount(Builder) = Len(ErrorsSinceClear)
        /\ getWarningCount(Builder) = Len(WarningsSinceClear)
        /\ JustCleared => getErrorCount(Builder) = 0 /\ getWarningCount(Builder) = 0
        /\ JustBuilt =>
               /\ validationResult.isValid = (Len(ErrorsSinceClear) = 0)
               /\ validationResult.errors = ErrorsSinceClear
               /\ validationResult.warnings = WarningsSinceClear

\* Errors were added in bulk and cleared, warnings were added afterwards, and
\* build() has returned a valid result listing two warnings in order
C30_Witness ==
    /\ pc = "builder"
    /\ JustBuilt
    /\ LastClear > 1
    /\ Len(ItemsAdded(1, {"addError", "addErrors"})) = 2
    /\ validationResult.isValid
    /\ validationResult.warnings = <<AgeError, ExtremeReturnWarning>>


\* ---------------------------------------------------------------------------
\* C28  The ages of the timeline stay below endAge
\* ---------------------------------------------------------------------------

InterpolatesByAgeProgress(a) ==
    a.glidepathConfig.mode \in {"fixed-return", "allocation-based"}

\* Entry e of a simulation with arguments a is strictly inside the span, so
\* that its age progress is below 1 and the clamp leaves it as it is
EntryBelowEndAge(a, e) ==
    LET progress == calculateAgeProgressUnclamped(e.age, a.startAge, a.endAge)
    IN  /\ RLe(a.startAge, e.age)
        /\ RLt(e.age, a.endAge)
        /\ InterpolatesByAgeProgress(a) =>
               /\ RLe(RZero, progress) /\ RLt(progress, ROne)
               /\ calculateAgeProgress(e.age, a.startAge, a.endAge) = progress
        /\ (/\ a.glidepathConfig.mode = "fixed-return"
            /\ a.glidepathConfig.startReturn # a.glidepathConfig.endReturn) =>
               e.currentAnnualReturn # a.glidepathConfig.endReturn

\* C28 as stated: in every simulation every timeline entry's age is at least
\* startAge and strictly less than endAge; hence for fixed-return and
\* allocation-based configs the age progress of every month lies in [0, 1),
\* the clamp never changes a value, and when startReturn differs from
\* endReturn no entry has currentAnnualReturn equal to endReturn.
C28_AgesBelowEndAge ==
    Simulating =>
        \A k \in 1..Len(monthlyTimeline) : EntryBelowEndAge(args, monthlyTimeline[k])

=============================================================================
